---------------------------- MODULE Spec2Model ----------------------------
(***************************************************************************)
(* pasta::bit_vector -- the packed bit vector (BitVector, BitAccess) and   *)
(* the rank/select indexes built over it (Rank/RankSelect, FlatRank/       *)
(* FlatRankSelect, WideRank/WideRankSelect).                               *)
(*                                                                         *)
(* Geometry.  The source fixes 64-bit words, 8 words per L2-block, 2^20    *)
(* L1-blocks per L0-block and 64-bit/32-bit counters.  TLC cannot hold     *)
(* vectors of that size, so the model is parametric in                     *)
(*   WordBits       bits per word                  (source: 64)            *)
(*   L2_WORD_SIZE   words per L2-block             (source: 8)             *)
(*   L0_L1_BLOCKS   L1-blocks per L0-block         (source: 2^20)          *)
(*   WideL2PerL1    L2-blocks per wide L1-block    (source: 128)           *)
(*   WideSampleL2   L2-blocks per wide sample rate (source: 16)            *)
(*   SizeBits       width of size_t / uint64_t     (source: 64)            *)
(*   U32Bits        width of uint32_t              (source: 32)            *)
(* and keeps every other ratio the code relies on: 4 (classic) and 8       *)
(* (flat) L2-blocks per L1-block, 3 resp. 7 stored L2 fields of 10 resp.   *)
(* 12 bits, 16-bit wide L2 entries, and SELECT_SAMPLE_RATE = 16 L2-blocks  *)
(* (8192 = 16 * 512).  Wherever the source writes the literals 8, 32, 64,  *)
(* 128, 512 for these quantities the model writes the named quantity.      *)
(***************************************************************************)
EXTENDS Integers, Sequences, FiniteSets, TLC

VARIABLES
  bit_size_,       \* BitVector::bit_size_
  size_,           \* BitVector::size_  (number of words)
  data_,           \* BitVector::data_  (function 0..size_-1 -> word)
  pc,              \* "bv": no index yet; "built": an index is constructed
  kind,            \* index family: "classic", "flat", "wide" ("none" before)
  optimized_for,   \* template parameter OptimizedFor
  find_with,       \* template parameter FindL2FlatWith / FindL2WideWith
  l0_,             \* Rank::l0_
  l12_,            \* Rank::l12_ / FlatRank::l12_
  l12_end_,        \* FlatRank::l12_end_
  l1_,             \* WideRank::l1_
  l2_,             \* WideRank::l2_
  samples0_pos_,   \* RankSelect::samples0_pos_
  samples1_pos_,   \* RankSelect::samples1_pos_
  samples0_,       \* *RankSelect::samples0_
  samples1_,       \* *RankSelect::samples1_
  queries,         \* number of queries answered by the index so far
  last             \* the last operation, its arguments and its result

bvVars  == <<bit_size_, size_, data_>>
cfgVars == <<kind, optimized_for, find_with>>
idxVars == <<l0_, l12_, l12_end_, l1_, l2_,
             samples0_pos_, samples1_pos_, samples0_, samples1_>>
vars    == <<bit_size_, size_, data_, pc, kind, optimized_for, find_with,
             l0_, l12_, l12_end_, l1_, l2_,
             samples0_pos_, samples1_pos_, samples0_, samples1_, queries,
             last>>

---------------------------------------------------------------------------
(* Scaled machine parameters and the bounds of the explored inputs.        *)

WordBits == 3
L2_WORD_SIZE == 2
L0_L1_BLOCKS == 5
SizeBits == 20
U32Bits == 16
MaxBitsBV == 7
WideL2PerL1 == 8
WideSampleL2 == 2
MaxQueries == 1

WordMod == 2^WordBits
WordMax == WordMod - 1
Words   == 0..WordMax
SizeMod == 2^SizeBits
UINT64_MAX == SizeMod - 1
U32Mod  == 2^U32Bits

Min(a, b) == IF a < b THEN a ELSE b
Max(a, b) == IF a > b THEN a ELSE b

\* unsigned arithmetic of size_t / uint64_t
USub(a, b) == (a - b) % SizeMod
UAdd(a, b) == (a + b) % SizeMod

---------------------------------------------------------------------------
(* Word-level operations.                                                  *)

RECURSIVE BitAnd(_, _)
BitAnd(a, b) ==
  IF a = 0 \/ b = 0 THEN 0
  ELSE ((a % 2) * (b % 2)) + 2 * BitAnd(a \div 2, b \div 2)

RECURSIVE BitOr(_, _)
BitOr(a, b) ==
  IF a = 0 THEN b
  ELSE IF b = 0 THEN a
  ELSE Max(a % 2, b % 2) + 2 * BitOr(a \div 2, b \div 2)

\* ~w on a word
BitNot(w) == WordMax - w

\* w << s and w >> s on a word
Shl(w, s) == (w * (2^s)) % WordMod
Shr(w, s) == w \div (2^s)

\* std::popcount
RECURSIVE StdPopcount(_)
StdPopcount(w) == IF w = 0 THEN 0 ELSE (w % 2) + StdPopcount(w \div 2)

---------------------------------------------------------------------------
(* BitVector and BitAccess (include/pasta/bit_vector/bit_vector.hpp).      *)

\* BitAccess::operator bool on the word array d
GetMutantMsbFirst(d, position) ==
  LET offset == (WordBits - 1) - (position % WordBits)
  IN  BitAnd(Shr(d[position \div WordBits], offset), 1)

Get(d, position) ==
  LET offset == position % WordBits
  IN  BitAnd(Shr(d[position \div WordBits], offset), 1)

\* BitAccess::operator=(bool) on the word array d: the new word array
SetMutantWholeWord(d, position, value) ==
  LET mask == 2^(position % WordBits)
      w    == position \div WordBits
  IN  [d EXCEPT ![w] = IF value = 1 THEN BitOr(d[w], WordMax) ELSE BitAnd(d[w], BitNot(mask))]

Set(d, position, value) ==
  LET mask == 2^(position % WordBits)
      w    == position \div WordBits
      neg  == IF value = 1 THEN WordMax ELSE 0      \* -value
  IN  [d EXCEPT ![w] = BitOr(BitAnd(d[w], BitNot(mask)), BitAnd(neg, mask))]

\* std::fill_n(d + from, count, fill_value)
FillN(d, from, count, fill_value) ==
  [w \in DOMAIN d |-> IF w >= from /\ w < from + count THEN fill_value ELSE d[w]]

\* the loop "for i = from; i < to; ++i: operator[](i) = value"
RECURSIVE SetRange(_, _, _, _)
SetRange(d, from, to, value) ==
  IF from >= to THEN d ELSE SetRange(Set(d, from, value), from + 1, to, value)

\* BitVector(size): size_ = (bit_size_ >> 6) + 1
WordCount(size) == (size \div WordBits) + 1

\* tlx::SimpleVector::resize: the first min(old, new) elements are kept, the
\* others are not initialised (fresh holds what the new storage contains)
SimpleVectorResize(d, old_size, new_size, fresh) ==
  [w \in 0..(new_size - 1) |-> IF w < old_size THEN d[w] ELSE fresh[w]]

\* BitVector::resize(size, init_value): the new word array
ResizeMutantNoBitwise(d, old_bit_size, old_words, size, init_value, fresh) ==
  LET new_words == WordCount(size)
      d1 == SimpleVectorResize(d, old_words, new_words, fresh)
      fill_value == IF init_value = 1 THEN WordMax ELSE 0
      old_size == (old_bit_size + WordBits - 1) \div WordBits
  IN  IF old_bit_size < size
        THEN FillN(d1, old_size, new_words - old_size, fill_value)
        ELSE d1

Resize(d, old_bit_size, old_words, size, init_value, fresh) ==
  LET new_words == WordCount(size)
      d1 == SimpleVectorResize(d, old_words, new_words, fresh)
      fill_value == IF init_value = 1 THEN WordMax ELSE 0
      max_bitwise ==
        Min(size, ((old_bit_size + WordBits - 1) \div WordBits) * WordBits)
      d2 == SetRange(d1, old_bit_size, max_bitwise, init_value)
      old_size == (old_bit_size + WordBits - 1) \div WordBits
  IN  IF old_bit_size < size
        THEN FillN(d2, old_size, new_words - old_size, fill_value)
        ELSE d1

NoIndex ==
  /\ pc = "bv"
  /\ kind = "none"
  /\ optimized_for = "DONT_CARE"
  /\ find_with = "LINEAR_SEARCH"
  /\ l0_ = <<>> /\ l12_ = <<>> /\ l12_end_ = 0 /\ l1_ = <<>> /\ l2_ = <<>>
  /\ samples0_pos_ = <<>> /\ samples1_pos_ = <<>>
  /\ samples0_ = <<>> /\ samples1_ = <<>>
  /\ queries = 0

\* BitVector(size) leaves the words uninitialised; BitVector(size, init_value)
\* fills them.  Every word array of the right length is a possible content.
InitBV ==
  /\ bit_size_ \in 0..MaxBitsBV
  /\ size_ = WordCount(bit_size_)
  /\ data_ \in [0..(size_ - 1) -> Words]
  /\ NoIndex
  /\ last = [op |-> "construct"]

\* bv[index] = value
WriteBit(index, value) ==
  /\ pc = "bv"
  /\ index < bit_size_
  /\ data_' = Set(data_, index, value)
  /\ last' = [op |-> "set", index |-> index, value |-> value]
  /\ UNCHANGED <<bit_size_, size_, pc, cfgVars, idxVars, queries>>

\* bool(bv[index])
ReadBit(index) ==
  /\ pc = "bv"
  /\ index < bit_size_
  /\ last' = [op |-> "get", index |-> index, result |-> Get(data_, index)]
  /\ UNCHANGED <<bvVars, pc, cfgVars, idxVars, queries>>

\* bv.resize(size, init_value)
ResizeTo(size, init_value, fresh) ==
  /\ pc = "bv"
  /\ bit_size_' = size
  /\ size_' = WordCount(size)
  /\ data_' = Resize(data_, bit_size_, size_, size, init_value, fresh)
  /\ last' = [op |-> "resize", old_bit_size |-> bit_size_, size |-> size,
              init_value |-> init_value]
  /\ UNCHANGED <<pc, cfgVars, idxVars, queries>>

\* the contents the fresh storage of a resize can hold
FreshWords == {[w \in 0..(WordCount(MaxBitsBV) - 1) |-> 0],
               [w \in 0..(WordCount(MaxBitsBV) - 1) |-> WordMax]}

NextBV ==
  \/ \E index \in 0..(MaxBitsBV - 1), value \in {0, 1} : WriteBit(index, value)
  \/ \E index \in 0..(MaxBitsBV - 1) : ReadBit(index)
  \/ \E size \in 0..MaxBitsBV, init_value \in {0, 1}, fresh \in FreshWords :
        ResizeTo(size, init_value, fresh)

SpecBV == InitBV /\ [][NextBV]_vars

---------------------------------------------------------------------------
(* C9: after bv[i] = v a read of bv[i] returns v and every other position  *)
(* j # i in [0, n) reads the same value as before the write; as this holds *)
(* of every write step, it holds after any sequence of writes.             *)
C9_WriteFrame ==
  [][last'.op = "set" =>
        /\ Get(data_', last'.index) = last'.value
        /\ \A j \in 0..(bit_size_ - 1) :
              j # last'.index => Get(data_', j) = Get(data_, j)
        /\ bit_size_' = bit_size_]_vars

\* a write of 0 has happened into a word that still holds a 1 in another bit
C9_Witness ==
  /\ last.op = "set"
  /\ last.value = 0
  /\ \E j \in 0..(bit_size_ - 1) :
        /\ j # last.index
        /\ j \div WordBits = last.index \div WordBits
        /\ Get(data_, j) = 1

(* C10: resize(n', fill) on a vector of length n: if n' > n the bits in    *)
(* [0, n) keep their value and the bits in [n, n') read fill; if n' < n    *)
(* the bits in [0, n') keep their value; afterwards size() = n'.           *)
C10_Resize ==
  [][last'.op = "resize" =>
        /\ last'.old_bit_size = bit_size_
        /\ bit_size_' = last'.size
        /\ \A j \in 0..(Min(bit_size_, bit_size_') - 1) :
              Get(data_', j) = Get(data_, j)
        /\ \A j \in bit_size_..(bit_size_' - 1) :
              Get(data_', j) = last'.init_value]_vars

\* a vector that was shrunk to a length inside a word whose old bits differ
\* from fill has then been grown within and beyond that word
C10_Witness ==
  /\ last.op = "resize"
  /\ last.old_bit_size % WordBits # 0
  /\ last.size > last.old_bit_size + WordBits
  /\ last.init_value = 1
  /\ \E j \in 0..(last.old_bit_size - 1) : Get(data_, j) = 0

---------------------------------------------------------------------------
(* Block geometry (PopcntRankSelectConfig, FlatRankSelectConfig,           *)
(* WideRankSelectConfig).                                                  *)

L2_BIT_SIZE == L2_WORD_SIZE * WordBits
SELECT_SAMPLE_RATE == 16 * L2_BIT_SIZE

PopcntL1_WORD_SIZE == 4 * L2_WORD_SIZE
PopcntL1_BIT_SIZE  == 4 * L2_BIT_SIZE
PopcntL0_WORD_SIZE == L0_L1_BLOCKS * PopcntL1_WORD_SIZE
PopcntL0_BIT_SIZE  == L0_L1_BLOCKS * PopcntL1_BIT_SIZE

FlatL1_WORD_SIZE == 8 * L2_WORD_SIZE
FlatL1_BIT_SIZE  == 8 * L2_BIT_SIZE

WideL1_WORD_SIZE == WideL2PerL1 * L2_WORD_SIZE
WideL1_BIT_SIZE  == WideL2PerL1 * L2_BIT_SIZE

\* optimize_one_or_dont_care
optimize_one_or_dont_care(o) == o = "DONT_CARE" \/ o = "ONE_QUERIES"

\* popcount<Words>(buffer) and popcount_zeros<Words>(buffer): no bound checks
RECURSIVE popcount(_, _, _)
popcount(d, buffer, Words_) ==
  IF Words_ = 0 THEN 0
  ELSE StdPopcount(d[buffer]) + popcount(d, buffer + 1, Words_ - 1)

RECURSIVE popcount_zeros(_, _, _)
popcount_zeros(d, buffer, Words_) ==
  IF Words_ = 0 THEN 0
  ELSE StdPopcount(BitNot(d[buffer])) + popcount_zeros(d, buffer + 1, Words_ - 1)

\* the "if constexpr (optimize_one_or_dont_care) popcount else popcount_zeros"
\* of the three init() functions
StoredCountMutantOnesOnly(o, d, buffer, Words_) == popcount(d, buffer, Words_)

StoredCount(o, d, buffer, Words_) ==
  IF optimize_one_or_dont_care(o) THEN popcount(d, buffer, Words_)
  ELSE popcount_zeros(d, buffer, Words_)

\* storage that was allocated and never written: every element holds junk
Uninit(n, junk) == [i \in 0..(n - 1) |-> junk]

---------------------------------------------------------------------------
(* L12Type (l12_type.hpp): a 32-bit L1 value and three 10-bit L2 values.   *)

L2Mask10 == 1023

\* L12Type::L12Type(_l1, _l2)
L12TypeMutantNarrowFields(l1, l2e) ==
  [l1 |-> l1 % U32Mod,
   l2_values |-> ((l2e[3] % 4) * (2^20)) + ((l2e[2] % 4) * (2^10))
                 + (l2e[1] % 4)]

L12Type(l1, l2e) ==
  [l1 |-> l1 % U32Mod,
   l2_values |-> ((l2e[3] % (L2Mask10 + 1)) * (2^20))
                 + ((l2e[2] % (L2Mask10 + 1)) * (2^10))
                 + (l2e[1] % (L2Mask10 + 1))]

\* an L12Type in storage that was never written
JunkL12Type(junk) == [l1 |-> junk % U32Mod, l2_values |-> junk % (2^30)]

---------------------------------------------------------------------------
(* Rank (rank.hpp): three levels L0 / L1 / L2.                             *)

\* Rank::Rank: the sizes of l0_ and l12_
RankL0Size(data_size)  == (data_size \div PopcntL0_WORD_SIZE) + 2
RankL12Size(data_size) == (data_size \div PopcntL1_WORD_SIZE) + 1

\* Rank::init, the loop over the full L12-blocks ("while (data + 32 <= data_end)").
\* s = [data, l0_pos, l12_pos, l1_entry, l0, l12]
RECURSIVE RankInitFull(_, _, _, _)
RankInitFull(o, d, data_end, s) ==
  IF s.data + PopcntL1_WORD_SIZE <= data_end
    THEN LET e1 == StoredCount(o, d, s.data, L2_WORD_SIZE) % 65536
             e2 == StoredCount(o, d, s.data + L2_WORD_SIZE, L2_WORD_SIZE) % 65536
             e3 == StoredCount(o, d, s.data + 2 * L2_WORD_SIZE, L2_WORD_SIZE) % 65536
             e4 == StoredCount(o, d, s.data + 3 * L2_WORD_SIZE, L2_WORD_SIZE)
             new_l1_entry == (s.l1_entry + e1 + e2 + e3 + e4) % U32Mod
             l12a == [s.l12 EXCEPT ![s.l12_pos] = L12Type(s.l1_entry, <<e1, e2, e3>>)]
             l12_pos == s.l12_pos + 1
         IN  IF l12_pos % L0_L1_BLOCKS = 0
               THEN RankInitFull(o, d, data_end,
                      [data |-> s.data + PopcntL1_WORD_SIZE,
                       l0_pos |-> s.l0_pos + 1,
                       l12_pos |-> l12_pos,
                       l1_entry |-> 0,
                       l0 |-> [s.l0 EXCEPT ![s.l0_pos] =
                                  UAdd(s.l0[s.l0_pos - 1], new_l1_entry)],
                       l12 |-> l12a])
               ELSE RankInitFull(o, d, data_end,
                      [data |-> s.data + PopcntL1_WORD_SIZE,
                       l0_pos |-> s.l0_pos,
                       l12_pos |-> l12_pos,
                       l1_entry |-> new_l1_entry,
                       l0 |-> s.l0,
                       l12 |-> l12a])
    ELSE s

\* Rank::init, "while (data + 8 < data_end)" of the last, not full L12-block.
\* t = [data, l2_pos, l2_entries]
RECURSIVE RankInitTailBlocks(_, _, _, _)
RankInitTailBlocks(o, d, data_end, t) ==
  IF t.data + L2_WORD_SIZE < data_end
    THEN RankInitTailBlocks(o, d, data_end,
           [data |-> t.data + L2_WORD_SIZE,
            l2_pos |-> t.l2_pos + 1,
            l2_entries |-> [t.l2_entries EXCEPT ![t.l2_pos + 1] =
                               StoredCount(o, d, t.data, L2_WORD_SIZE) % 65536]])
    ELSE t

\* Rank::init, "if (l2_pos < 3) while (data < data_end)" word by word
RankInitTailWords(o, d, data_end, t) ==
  IF t.l2_pos < 3
    THEN [t.l2_entries EXCEPT ![t.l2_pos + 1] =
            (@ + StoredCount(o, d, t.data, data_end - t.data)) % 65536]
    ELSE t.l2_entries

\* Rank::init: [l0 |-> l0_, l12 |-> l12_]
RankInit(o, d, data_size, junk) ==
  LET s == RankInitFull(o, d, data_size,
             [data |-> 0, l0_pos |-> 1, l12_pos |-> 0, l1_entry |-> 0,
              l0 |-> [Uninit(RankL0Size(data_size), junk) EXCEPT ![0] = 0],
              l12 |-> Uninit(RankL12Size(data_size), JunkL12Type(junk))])
      t == RankInitTailBlocks(o, d, data_size,
             [data |-> s.data, l2_pos |-> 0, l2_entries |-> <<0, 0, 0>>])
      l2_entries == RankInitTailWords(o, d, data_size, t)
      l12a == [s.l12 EXCEPT ![s.l12_pos] = L12Type(s.l1_entry, l2_entries)]
  IN  IF s.l12_pos % L0_L1_BLOCKS = 0
        THEN [l0 |-> [s.l0 EXCEPT ![s.l0_pos] =
                        UAdd(@, UAdd(s.l0[s.l0_pos - 1], s.l1_entry))],
              l12 |-> l12a]
        ELSE [l0 |-> [s.l0 EXCEPT ![s.l0_pos] = UINT64_MAX], l12 |-> l12a]

\* the tail of every rank1: the full words of the L2-block before index, then
\* the bits of the word that holds index ("data_[offset] << (64 - index)")
RankWordTail(d, offset, index_in_l2, result) ==
  LET full == index_in_l2 \div WordBits
      r1 == UAdd(result, popcount(d, offset, full))
      index == index_in_l2 % WordBits
  IN  IF index > 0
        THEN UAdd(r1, StdPopcount(Shl(d[offset + full], WordBits - index)))
        ELSE r1

\* Rank::rank1, "for (i < l2_pos) result += l2 & 0b1111111111; l2 >>= 10"
RECURSIVE RankL2Sum(_, _)
RankL2Sum(l2, l2_pos) ==
  IF l2_pos = 0 THEN 0
  ELSE BitAnd(l2, L2Mask10) + RankL2Sum(l2 \div (2^10), l2_pos - 1)

\* Rank::rank1
RankRank1MutantNoInversion(o, d, l0, l12, index) ==
  LET offset == (index \div L2_BIT_SIZE) * L2_WORD_SIZE
      l1_pos == index \div PopcntL1_BIT_SIZE
      l2_pos == (index % PopcntL1_BIT_SIZE) \div L2_BIT_SIZE
      r0 == UAdd(UAdd(l0[index \div PopcntL0_BIT_SIZE], l12[l1_pos].l1),
                 RankL2Sum(l12[l1_pos].l2_values, l2_pos))
  IN  RankWordTail(d, offset, index % L2_BIT_SIZE, r0)

RankRank1(o, d, l0, l12, index) ==
  LET offset == (index \div L2_BIT_SIZE) * L2_WORD_SIZE
      l1_pos == index \div PopcntL1_BIT_SIZE
      l2_pos == (index % PopcntL1_BIT_SIZE) \div L2_BIT_SIZE
      r0 == UAdd(UAdd(l0[index \div PopcntL0_BIT_SIZE], l12[l1_pos].l1),
                 RankL2Sum(l12[l1_pos].l2_values, l2_pos))
      r1 == IF optimize_one_or_dont_care(o) THEN r0
            ELSE USub((l1_pos * PopcntL1_BIT_SIZE) + (l2_pos * L2_BIT_SIZE), r0)
  IN  RankWordTail(d, offset, index % L2_BIT_SIZE, r1)

\* Rank::rank0
RankRank0(o, d, l0, l12, index) == USub(index, RankRank1(o, d, l0, l12, index))

---------------------------------------------------------------------------
(* BigL12Type (l12_type.hpp): 128 bits, kept as its 16 bytes (byte 0 is    *)
(* the least significant): a 44-bit L1 value and seven 12-bit L2 values.   *)

L2Mask12 == 4095

\* the i-th 4-bit digit of the masked L1 value; an L1 value is a uint64_t of
\* the model's width, so its digits from the eighth on are 0
BigL1Nibble(l1, i) == IF i < 8 THEN (l1 \div (16^i)) % 16 ELSE 0

\* the i-th 4-bit digit of the 128-bit value the constructor packs
BigNibble(l1, l2e, i) ==
  IF i < 11 THEN BigL1Nibble(l1, i)
  ELSE LET f == (i - 11) \div 3
           k == (i - 11) % 3
       IN  (BitAnd(L2Mask12, l2e[f + 1]) \div (16^k)) % 16

\* BigL12Type::BigL12Type(_l1, _l2)
BigL12Type(l1, l2e) ==
  [b \in 0..15 |-> BigNibble(l1, l2e, 2 * b) + 16 * BigNibble(l1, l2e, (2 * b) + 1)]

\* (data >> shift) & 0b111111111111
BigShiftMask12(data, shift) ==
  LET k == shift \div 8
      lo == IF k <= 15 THEN data[k] ELSE 0
      hi == IF k + 1 <= 15 THEN data[k + 1] ELSE 0
  IN  ((lo + 256 * hi) \div (2^(shift % 8))) % (L2Mask12 + 1)

\* BigL12Type::operator[]
BigL12IndexMutantNoOffset(data, index) ==
  IF index = 0 THEN 0 ELSE BigShiftMask12(data, (12 * index) + 20)

BigL12Index(data, index) ==
  IF index = 0 THEN 0 ELSE BigShiftMask12(data, (12 * index) + 32)

\* BigL12Type::l1(); the bytes 4 and 5 hold no L1 digit in the model's width
BigL12L1(data) ==
  data[0] + (256 * data[1]) + (65536 * data[2]) + (16777216 * data[3])

\* a BigL12Type in storage that was never written
JunkBigL12Type(junk) ==
  [b \in 0..15 |-> IF b < 4 THEN (junk \div (256^b)) % 256
                   ELSE IF b = 4 THEN 0
                   ELSE IF b = 5 THEN 16 * (junk % 16)
                   ELSE junk % 256]

---------------------------------------------------------------------------
(* FlatRank (flat_rank.hpp): two levels, L1 and seven prefix sums of L2.   *)

FlatL12Size(data_size) == (data_size \div FlatL1_WORD_SIZE) + 1

\* the prefix sums l2_entries[0..6] of a full L1-block that starts at data
RECURSIVE FlatFullL2(_, _, _, _)
FlatFullL2(o, d, data, i) ==
  IF i = 0 THEN <<StoredCount(o, d, data, L2_WORD_SIZE) % 65536>>
  ELSE LET prev == FlatFullL2(o, d, data, i - 1)
       IN  Append(prev, (prev[i] + StoredCount(o, d, data + i * L2_WORD_SIZE,
                                                L2_WORD_SIZE)) % 65536)

\* FlatRank::init, "while (data + 64 < data_end)".
\* s = [data, l1_entry, l12, l12_end]
RECURSIVE FlatInitFull(_, _, _, _)
FlatInitFull(o, d, data_end, s) ==
  IF s.data + FlatL1_WORD_SIZE < data_end
    THEN LET l2_entries == FlatFullL2(o, d, s.data, 6)
         IN  FlatInitFull(o, d, data_end,
               [data |-> s.data + FlatL1_WORD_SIZE,
                l1_entry |-> UAdd(s.l1_entry,
                               l2_entries[7]
                                 + StoredCount(o, d, s.data + 7 * L2_WORD_SIZE,
                                               L2_WORD_SIZE)),
                l12 |-> [s.l12 EXCEPT ![s.l12_end] =
                           BigL12Type(s.l1_entry, l2_entries)],
                l12_end |-> s.l12_end + 1])
    ELSE s

\* FlatRank::init, "while (data + 8 < data_end)" of the last L1-block.
\* t = [data, l2_pos, l2_entries]
RECURSIVE FlatInitTailBlocks(_, _, _, _)
FlatInitTailBlocks(o, d, data_end, t) ==
  IF t.data + L2_WORD_SIZE < data_end
    THEN FlatInitTailBlocks(o, d, data_end,
           [data |-> t.data + L2_WORD_SIZE,
            l2_pos |-> t.l2_pos + 1,
            l2_entries |-> [t.l2_entries EXCEPT ![t.l2_pos + 1] =
                               StoredCount(o, d, t.data, L2_WORD_SIZE) % 65536]])
    ELSE t

\* FlatRank::init, "if (l2_pos < 7) while (data < data_end)"
FlatInitTailWords(o, d, data_end, t) ==
  IF t.l2_pos < 7
    THEN [t.l2_entries EXCEPT ![t.l2_pos + 1] =
            (@ + StoredCount(o, d, t.data, data_end - t.data)) % 65536]
    ELSE t.l2_entries

\* std::partial_sum over uint16_t
RECURSIVE PartialSum(_, _)
PartialSum(e, i) ==
  IF i = 1 THEN <<e[1]>>
  ELSE LET prev == PartialSum(e, i - 1)
       IN  Append(prev, (prev[i - 1] + e[i]) % 65536)

\* FlatRank::init: [l12 |-> l12_, l12_end |-> l12_end_]
FlatRankInitMutantNoPartialSum(o, d, data_size, junk) ==
  LET s == FlatInitFull(o, d, data_size,
             [data |-> 0, l1_entry |-> 0,
              l12 |-> Uninit(FlatL12Size(data_size), JunkBigL12Type(junk)),
              l12_end |-> 0])
      t == FlatInitTailBlocks(o, d, data_size,
             [data |-> s.data, l2_pos |-> 0,
              l2_entries |-> <<0, 0, 0, 0, 0, 0, 0>>])
      l2_entries == FlatInitTailWords(o, d, data_size, t)
  IN  [l12 |-> [s.l12 EXCEPT ![s.l12_end] = BigL12Type(s.l1_entry, l2_entries)],
       l12_end |-> s.l12_end + 1]

FlatRankInit(o, d, data_size, junk) ==
  LET s == FlatInitFull(o, d, data_size,
             [data |-> 0, l1_entry |-> 0,
              l12 |-> Uninit(FlatL12Size(data_size), JunkBigL12Type(junk)),
              l12_end |-> 0])
      t == FlatInitTailBlocks(o, d, data_size,
             [data |-> s.data, l2_pos |-> 0,
              l2_entries |-> <<0, 0, 0, 0, 0, 0, 0>>])
      l2_entries == PartialSum(FlatInitTailWords(o, d, data_size, t), 7)
  IN  [l12 |-> [s.l12 EXCEPT ![s.l12_end] = BigL12Type(s.l1_entry, l2_entries)],
       l12_end |-> s.l12_end + 1]

\* FlatRank::rank1
FlatRank1(o, d, l12, index) ==
  LET offset == (index \div L2_BIT_SIZE) * L2_WORD_SIZE
      l1_pos == index \div FlatL1_BIT_SIZE
      l2_pos == (index % FlatL1_BIT_SIZE) \div L2_BIT_SIZE
      r0 == UAdd(BigL12L1(l12[l1_pos]), BigL12Index(l12[l1_pos], l2_pos))
      r1 == IF optimize_one_or_dont_care(o) THEN r0
            ELSE USub((l1_pos * FlatL1_BIT_SIZE) + (l2_pos * L2_BIT_SIZE), r0)
  IN  RankWordTail(d, offset, index % L2_BIT_SIZE, r1)

\* FlatRank::rank0
FlatRank0(o, d, l12, index) == USub(index, FlatRank1(o, d, l12, index))

---------------------------------------------------------------------------
(* WideRank (wide_rank.hpp): a 64-bit L1 array and a 16-bit L2 array.      *)

WideL1Size(data_size) == (data_size \div WideL1_WORD_SIZE) + 1
WideL2Size(data_size) == (data_size \div L2_WORD_SIZE) + 1

\* WideRank::init, "while (data + 8 < data_end)".
\* s = [data, l1_pos, l2_pos, l2_entry, l1, l2]
RECURSIVE WideInitLoop(_, _, _, _)
WideInitLoop(o, d, data_end, s) ==
  IF s.data + L2_WORD_SIZE < data_end
    THEN LET l2a == [s.l2 EXCEPT ![s.l2_pos] = s.l2_entry % 65536]
             l2_pos == s.l2_pos + 1
             l2_entry == UAdd(s.l2_entry, StoredCount(o, d, s.data, L2_WORD_SIZE))
         IN  IF l2_pos % WideL2PerL1 = 0 /\ l2_pos > 0
               THEN WideInitLoop(o, d, data_end,
                      [data |-> s.data + L2_WORD_SIZE,
                       l1_pos |-> s.l1_pos + 1,
                       l2_pos |-> l2_pos,
                       l2_entry |-> 0,
                       l1 |-> [s.l1 EXCEPT ![s.l1_pos + 1] =
                                  UAdd(s.l1[s.l1_pos], l2_entry)],
                       l2 |-> l2a])
               ELSE WideInitLoop(o, d, data_end,
                      [data |-> s.data + L2_WORD_SIZE,
                       l1_pos |-> s.l1_pos,
                       l2_pos |-> l2_pos,
                       l2_entry |-> l2_entry,
                       l1 |-> s.l1,
                       l2 |-> l2a])
    ELSE s

\* WideRank::init: [l1 |-> l1_, l2 |-> l2_]
WideRankInit(o, d, data_size, junk) ==
  LET s == WideInitLoop(o, d, data_size,
             [data |-> 0, l1_pos |-> 0, l2_pos |-> 0, l2_entry |-> 0,
              l1 |-> [Uninit(WideL1Size(data_size), junk) EXCEPT ![0] = 0],
              l2 |-> [Uninit(WideL2Size(data_size), junk % 65536) EXCEPT ![0] = 0]])
  IN  [l1 |-> s.l1, l2 |-> [s.l2 EXCEPT ![s.l2_pos] = s.l2_entry % 65536]]

\* WideRank::rank1
WideRank1(o, d, l1, l2, index) ==
  LET l1_pos == index \div WideL1_BIT_SIZE
      l2_pos == index \div L2_BIT_SIZE
      r0 == UAdd(l1[l1_pos], l2[l2_pos])
      r1 == IF optimize_one_or_dont_care(o) THEN r0
            ELSE USub(l2_pos * L2_BIT_SIZE, r0)
      offset == l2_pos * L2_WORD_SIZE
      full_words == (index % L2_BIT_SIZE) \div WordBits
      r2 == UAdd(r1, popcount(d, offset, full_words))
      rem == index % WordBits
  IN  IF rem > 0
        THEN UAdd(r2, StdPopcount(Shl(d[offset + full_words], WordBits - rem)))
        ELSE r2

\* WideRank::rank0
WideRank0(o, d, l1, l2, index) == USub(index, WideRank1(o, d, l1, l2, index))

---------------------------------------------------------------------------
(* Reads outside what was written.                                         *)

\* a[i] of an array (0-based): an element outside the array is whatever the
\* memory behind it holds
ReadAt(a, i, junk) == IF i \in DOMAIN a THEN a[i] ELSE junk

\* v[i] of a std::vector<uint32_t> (kept as a sequence): likewise
ReadVec(v, i, junk) == IF i < Len(v) THEN v[i + 1] ELSE junk % U32Mod

\* the result of a query whose word scan left the words of the bit vector
OutOfBounds == 0 - 1

---------------------------------------------------------------------------
(* pasta::select(word, k) (support/select.hpp of the include tree): the    *)
(* offset, counted from the least significant bit, of the k-th (k counted  *)
(* from 0) set bit of word.  For k >= popcount(word) no such bit exists;   *)
(* the model then returns WordBits, which is no bit offset.                *)

RECURSIVE SelectInWordRec(_, _)
SelectInWordRec(word, k) ==
  IF word % 2 = 1
    THEN IF k = 0 THEN 0 ELSE 1 + SelectInWordRec(word \div 2, k - 1)
    ELSE 1 + SelectInWordRec(word \div 2, k)

select(word, k) ==
  IF k < StdPopcount(word) THEN SelectInWordRec(word, k) ELSE WordBits

\* the final loop of every select: "while ((popcount = popcount<1>(data_ +
\* last_pos)) < rank) { ++last_pos; rank -= popcount; }" followed by
\* "return (last_pos * 64) + select(data_[last_pos], rank - 1)", on the
\* words themselves (bit = 1) or on their complements (bit = 0).
\* The result is [pos, words]: the position and the number of words read.
RECURSIVE WordScan(_, _, _, _, _)
WordScan(d, bit, last_pos, rank, words) ==
  IF last_pos \notin DOMAIN d THEN [pos |-> OutOfBounds, words |-> words]
  ELSE LET word == IF bit = 1 THEN d[last_pos] ELSE BitNot(d[last_pos])
           pop == StdPopcount(word)
       IN  IF pop < rank
             THEN WordScan(d, bit, last_pos + 1, rank - pop, words + 1)
             ELSE [pos |-> UAdd(last_pos * WordBits, select(word, USub(rank, 1))),
                   words |-> words + 1]

---------------------------------------------------------------------------
(* RankSelect (rank_select.hpp): Rank plus select samples.                 *)

RankSelectSamplesPosSize(data_size) == (data_size \div PopcntL0_WORD_SIZE) + 1

\* the count of the polarity bit before L1-block l12_pos within its L0-block
\* (l0_pos is already incremented in init, hence l0_pos - 1)
RankSelectInitCountMutantNoL0Offset(o, bit, l12, l12_pos, l0_pos) ==
  IF (bit = 1) = optimize_one_or_dont_care(o)
    THEN l12[l12_pos].l1
    ELSE USub(l12_pos * PopcntL1_BIT_SIZE, l12[l12_pos].l1)

RankSelectInitCount(o, bit, l12, l12_pos, l0_pos) ==
  IF (bit = 1) = optimize_one_or_dont_care(o)
    THEN l12[l12_pos].l1
    ELSE USub(USub(l12_pos * PopcntL1_BIT_SIZE,
                   (l0_pos - 1) * PopcntL0_BIT_SIZE), l12[l12_pos].l1)

\* RankSelect::init, "for (l0_pos = 0, l12_pos = 0; l12_pos < l12_end; ++l12_pos)".
\* s = [l0_pos, l12_pos, next0, next1, s0pos, s1pos, s0, s1]
RECURSIVE RankSelectInitLoop(_, _, _, _)
RankSelectInitLoop(o, l12, l12_end, s) ==
  IF s.l12_pos < l12_end
    THEN LET newL0 == s.l12_pos % L0_L1_BLOCKS = 0
             s0pos == IF newL0 THEN [s.s0pos EXCEPT ![s.l0_pos] = Len(s.s0)]
                      ELSE s.s0pos
             s1pos == IF newL0 THEN [s.s1pos EXCEPT ![s.l0_pos] = Len(s.s1)]
                      ELSE s.s1pos
             l0_pos == IF newL0 THEN s.l0_pos + 1 ELSE s.l0_pos
             next0 == IF newL0 THEN 1 ELSE s.next0
             next1 == IF newL0 THEN 1 ELSE s.next1
             push0 == RankSelectInitCount(o, 0, l12, s.l12_pos, l0_pos) >= next0
             push1 == RankSelectInitCount(o, 1, l12, s.l12_pos, l0_pos) >= next1
         IN  RankSelectInitLoop(o, l12, l12_end,
               [l0_pos |-> l0_pos,
                l12_pos |-> s.l12_pos + 1,
                next0 |-> IF push0 THEN next0 + SELECT_SAMPLE_RATE ELSE next0,
                next1 |-> IF push1 THEN next1 + SELECT_SAMPLE_RATE ELSE next1,
                s0pos |-> s0pos,
                s1pos |-> s1pos,
                s0 |-> IF push0 THEN Append(s.s0, USub(s.l12_pos, 1) % U32Mod)
                       ELSE s.s0,
                s1 |-> IF push1 THEN Append(s.s1, USub(s.l12_pos, 1) % U32Mod)
                       ELSE s.s1])
    ELSE s

\* RankSelect::init: [samples0_pos, samples1_pos, samples0, samples1]
RankSelectInit(o, l12, data_size, junk) ==
  LET s == RankSelectInitLoop(o, l12, RankL12Size(data_size),
             [l0_pos |-> 0, l12_pos |-> 0, next0 |-> 1, next1 |-> 1,
              s0pos |-> Uninit(RankSelectSamplesPosSize(data_size), junk),
              s1pos |-> Uninit(RankSelectSamplesPosSize(data_size), junk),
              s0 |-> <<>>, s1 |-> <<>>])
  IN  [samples0_pos |-> s.s0pos,
       samples1_pos |-> s.s1pos,
       samples0 |-> IF Len(s.s0) = 0 THEN <<0>> ELSE s.s0,
       samples1 |-> IF Len(s.s1) = 0 THEN <<0>> ELSE s.s1]

\* the value select compares rank with in its L0 scan: l0_[i] for the stored
\* polarity, i * L0_BIT_SIZE - l0_[i] for the derived one
RankSelectL0Count(stored, l0, i) ==
  IF stored THEN l0[i] ELSE USub(i * PopcntL0_BIT_SIZE, l0[i])

\* "while (l0_pos + 1 < l0_end && <count of l0_pos + 1> < rank) ++l0_pos"
RECURSIVE RankSelectL0Scan(_, _, _, _)
RankSelectL0Scan(stored, l0, l0_pos, rank) ==
  IF l0_pos + 1 < Cardinality(DOMAIN l0)
     /\ RankSelectL0Count(stored, l0, l0_pos + 1) < rank
    THEN RankSelectL0Scan(stored, l0, l0_pos + 1, rank)
    ELSE l0_pos

\* the value select compares rank with in its L1 scan
RankSelectL1Count(stored, l12, i) ==
  IF stored THEN l12[i].l1 ELSE USub(i * PopcntL1_BIT_SIZE, l12[i].l1)

\* "while (l1_pos + 1 < l0_block_end && <count of l1_pos + 1> < rank) ++l1_pos"
RECURSIVE RankSelectL1Scan(_, _, _, _, _)
RankSelectL1Scan(stored, l12, l0_block_end, l1_pos, rank) ==
  IF l1_pos + 1 < l0_block_end
     /\ RankSelectL1Count(stored, l12, l1_pos + 1) < rank
    THEN RankSelectL1Scan(stored, l12, l0_block_end, l1_pos + 1, rank)
    ELSE l1_pos

\* "while (l2_pos < 3 && <count of the next field> < rank)
\*    { rank -= <count>; l2 >>= 10; ++l2_pos; }": [l2_pos, rank]
RECURSIVE RankSelectL2Scan(_, _, _, _)
RankSelectL2Scan(stored, l2, l2_pos, rank) ==
  LET field == BitAnd(l2, L2Mask10)
      count == IF stored THEN field ELSE USub(L2_BIT_SIZE, field)
  IN  IF l2_pos < 3 /\ count < rank
        THEN RankSelectL2Scan(stored, l2 \div (2^10), l2_pos + 1, USub(rank, count))
        ELSE [l2_pos |-> l2_pos, rank |-> rank]

\* RankSelect::select1 (bit = 1) and RankSelect::select0 (bit = 0), which are
\* the same text with the two polarities exchanged.  The result records the
\* position and what the query looked at on its way.
RankSelectSelect(bit, o, d, data_size, l0, l12, samples_pos, samples, rank, junk) ==
  LET stored == (bit = 1) = optimize_one_or_dont_care(o)
      l0_end == Cardinality(DOMAIN l0)
      l12_end == Cardinality(DOMAIN l12)
      l0_pos == RankSelectL0Scan(stored, l0, 0, rank)
      rank0 == USub(rank, RankSelectL0Count(stored, l0, l0_pos))
      sample_pos == UAdd(USub(rank0, 1) \div SELECT_SAMPLE_RATE,
                         ReadAt(samples_pos, l0_pos, junk))
      l1_guess == UAdd(ReadVec(samples, sample_pos, junk),
                       (USub(rank0, 1) % SELECT_SAMPLE_RATE) \div PopcntL1_BIT_SIZE)
      l0_block_end == USub(Min((l0_pos + 1) * L0_L1_BLOCKS, l12_end), 1)
      l1_start == Min(l1_guess, l0_block_end)
      l1_pos == RankSelectL1Scan(stored, l12, l0_block_end, l1_start, rank0)
      rank1 == USub(rank0,
                 IF stored THEN l12[l1_pos].l1
                 ELSE USub(USub(l1_pos * PopcntL1_BIT_SIZE,
                                l0_pos * PopcntL0_BIT_SIZE), l12[l1_pos].l1))
      t == RankSelectL2Scan(stored, l12[l1_pos].l2_values, 0, rank1)
      last_pos == (L2_WORD_SIZE * t.l2_pos) + (PopcntL1_WORD_SIZE * l1_pos)
      w == WordScan(d, bit, last_pos, t.rank, 0)
  IN  IF l0_pos = l0_end
        THEN [pos |-> data_size, words |-> 0, l0_pos |-> l0_pos,
              sample_pos |-> 0, samples_len |-> Len(samples),
              l1_guess |-> 0, l1_pos |-> 0, l2_pos |-> 0]
        ELSE [pos |-> w.pos, words |-> w.words, l0_pos |-> l0_pos,
              sample_pos |-> sample_pos, samples_len |-> Len(samples),
              l1_guess |-> l1_guess, l1_pos |-> l1_pos, l2_pos |-> t.l2_pos]

---------------------------------------------------------------------------
(* FlatRankSelect (flat_rank_select.hpp): FlatRank plus select samples.    *)

\* the count of the polarity bit before L1-block i
FlatRankSelectL1CountMutantStoredOnly(stored, data, i) == BigL12L1(data)

FlatRankSelectL1Count(stored, data, i) ==
  IF stored THEN BigL12L1(data) ELSE USub(i * FlatL1_BIT_SIZE, BigL12L1(data))

\* FlatRankSelect::init, "for (l12_pos = 0; l12_pos < l12_end; ++l12_pos)"
\* with l12_end = l12_.size().  s = [l12_pos, next0, next1, s0, s1]
RECURSIVE FlatRankSelectInitLoop(_, _, _)
FlatRankSelectInitLoop(o, l12, s) ==
  IF s.l12_pos < Cardinality(DOMAIN l12)
    THEN LET one == optimize_one_or_dont_care(o)
             push0 == FlatRankSelectL1Count(~one, l12[s.l12_pos], s.l12_pos)
                        >= s.next0
             push1 == FlatRankSelectL1Count(one, l12[s.l12_pos], s.l12_pos)
                        >= s.next1
         IN  FlatRankSelectInitLoop(o, l12,
               [l12_pos |-> s.l12_pos + 1,
                next0 |-> IF push0 THEN s.next0 + SELECT_SAMPLE_RATE ELSE s.next0,
                next1 |-> IF push1 THEN s.next1 + SELECT_SAMPLE_RATE ELSE s.next1,
                s0 |-> IF push0 THEN Append(s.s0, USub(s.l12_pos, 1) % U32Mod)
                       ELSE s.s0,
                s1 |-> IF push1 THEN Append(s.s1, USub(s.l12_pos, 1) % U32Mod)
                       ELSE s.s1])
    ELSE s

\* "if (samples.size() == 0) push_back(0) else push_back(samples.back())"
FlatRankSelectAddEntry(samples) ==
  IF Len(samples) = 0 THEN <<0>> ELSE Append(samples, samples[Len(samples)])

\* FlatRankSelect::init: [samples0, samples1]
FlatRankSelectInit(o, l12) ==
  LET s == FlatRankSelectInitLoop(o, l12,
             [l12_pos |-> 0, next0 |-> 1, next1 |-> 1, s0 |-> <<>>, s1 |-> <<>>])
  IN  [samples0 |-> FlatRankSelectAddEntry(s.s0),
       samples1 |-> FlatRankSelectAddEntry(s.s1)]

\* "while (l1_pos + 1 < l12_end && <count of l1_pos + 1> < rank) ++l1_pos"
RECURSIVE FlatRankSelectL1Scan(_, _, _, _, _)
FlatRankSelectL1Scan(stored, l12, l12_end, l1_pos, rank) ==
  IF l1_pos + 1 < l12_end
     /\ FlatRankSelectL1Count(stored, l12[l1_pos + 1], l1_pos + 1) < rank
    THEN FlatRankSelectL1Scan(stored, l12, l12_end, l1_pos + 1, rank)
    ELSE l1_pos

\* what is taken off rank once the L2-block is found: l12_[l1_pos][l2_pos]
\* or (l2_pos * L2_BIT_SIZE) - l12_[l1_pos][l2_pos]
FlatRankSelectL2CountMutantStoredOnly(stored, data, l2_pos) ==
  BigL12Index(data, l2_pos)

FlatRankSelectL2Count(stored, data, l2_pos) ==
  IF stored THEN BigL12Index(data, l2_pos)
  ELSE USub(l2_pos * L2_BIT_SIZE, BigL12Index(data, l2_pos))

\* FindL2FlatWith::LINEAR_SEARCH: "auto tmp = data >> 32; while (<value of
\* (tmp >> 12) & 0xFFF> < rank && l2_pos < 7) { tmp >>= 12; ++l2_pos; }" in
\* 128-bit unsigned arithmetic (a difference below 0 wraps to a value above
\* every rank)
RECURSIVE FlatRankSelectLinear(_, _, _, _)
FlatRankSelectLinear(stored, data, l2_pos, rank) ==
  LET field == BigShiftMask12(data, 44 + (12 * l2_pos))
      max   == (l2_pos + 2) * L2_BIT_SIZE
      less  == IF stored THEN field < rank
               ELSE max >= field /\ max - field < rank
  IN  IF less /\ l2_pos < 7
        THEN FlatRankSelectLinear(stored, data, l2_pos + 1, rank)
        ELSE l2_pos

\* FindL2FlatWith::BINARY_SEARCH: "auto tmp = data >> 44" and a decision
\* tree over the seven fields; every value compared with rank is a uint16_t
\* (mid, left, right, leaf).  The result is [l2_pos, rank].
FlatRankSelectBinary(stored, data, rank) ==
  LET V(j) == IF stored THEN BigShiftMask12(data, 44 + (12 * j))
              ELSE (((j + 2) * L2_BIT_SIZE) + 65536
                      - BigShiftMask12(data, 44 + (12 * j))) % 65536
      Off(x) == IF stored THEN x ELSE USub(x, L2_BIT_SIZE)
      R(l2_pos, x) == [l2_pos |-> l2_pos, rank |-> USub(rank, Off(x))]
      mid == V(3)
      right == V(5)
      left == V(1)
  IN  IF mid < rank
        THEN IF right < rank
               THEN IF V(6) < rank THEN R(7, V(6)) ELSE R(6, right)
               ELSE IF V(4) < rank THEN R(5, V(4)) ELSE R(4, mid)
        ELSE IF left < rank
               THEN IF V(2) < rank THEN R(3, V(2)) ELSE R(2, left)
               ELSE IF V(0) < rank THEN R(1, V(0))
                    ELSE [l2_pos |-> 0, rank |-> rank]

\* FindL2FlatWith::INTRINSICS.  A __m128i is kept as its 16 bytes or as its
\* eight 16-bit lanes (lane i holds the bytes 2i and 2i + 1).
INT16_MAX == 32767

\* a 16-bit lane read as a signed value
Signed16(x) == IF x > INT16_MAX THEN x - 65536 ELSE x

\* the bytes _mm_setr_epi8 puts into shuffle_mask
ShuffleMask == <<10, 11, 8, 9, 7, 8, 5, 6, -1, 1, 14, 15, 13, 14, 11, 12>>

\* _mm_shuffle_epi8(value, shuffle_mask), as lanes
MmShuffleEpi8(value, lane) ==
  LET Byte(i) == IF ShuffleMask[i + 1] < 0 THEN 0
                 ELSE value[ShuffleMask[i + 1] % 16]
  IN  Byte(2 * lane) + (256 * Byte((2 * lane) + 1))

\* _mm_blend_epi16(_mm_srli_epi16(value, 4), _mm_and_si128(value,
\* lower_mask), 0b01010101): the even lanes come from the masked values
MmBlend(value) ==
  [lane \in 0..7 |->
     LET v == MmShuffleEpi8(value, lane)
     IN  IF lane % 2 = 0 THEN v % (L2Mask12 + 1) ELSE v \div 16]

\* max_ones, lane by lane
MaxOnes ==
  [lane \in 0..7 |->
     IF lane = 4 THEN INT16_MAX
     ELSE <<5, 4, 3, 2, 0, 8, 7, 6>>[lane + 1] * L2_BIT_SIZE]

\* the lanes that are compared: _mm_sub_epi16(max_ones, value) for the
\* derived polarity, _mm_insert_epi16(value, INT16_MAX, 4) for the stored one
FlatRankSelectLanesMutantNoSentinel(stored, data) ==
  LET value == MmBlend(data)
  IN  IF stored THEN value
      ELSE [lane \in 0..7 |-> (MaxOnes[lane] + 65536 - value[lane]) % 65536]

FlatRankSelectLanes(stored, data) ==
  LET value == MmBlend(data)
  IN  IF stored THEN [value EXCEPT ![4] = INT16_MAX]
      ELSE [lane \in 0..7 |-> (MaxOnes[lane] + 65536 - value[lane]) % 65536]

\* "l2_pos = (16 - popcount(_mm_movemask_epi8(_mm_cmpgt_epi16(value,
\* cmp_value)))) / 2".  cmp_value is rank - 1, except in select0 over the
\* derived polarity, where it is rank.
FlatRankSelectIntrinsics(bit, stored, data, rank) ==
  LET value == FlatRankSelectLanes(stored, data)
      cmp_value == IF bit = 0 /\ ~stored THEN rank % 65536
                   ELSE USub(rank, 1) % 65536
      greater == {lane \in 0..7 : Signed16(value[lane]) > Signed16(cmp_value)}
  IN  (16 - (2 * Cardinality(greater))) \div 2

\* the search for the L2-block within l12_[l1_pos]: [l2_pos, rank]
FlatRankSelectL2(fw, bit, stored, data, rank) ==
  CASE fw = "LINEAR_SEARCH" ->
         LET l2_pos == FlatRankSelectLinear(stored, data, 0, rank)
         IN  [l2_pos |-> l2_pos,
              rank |-> USub(rank, FlatRankSelectL2Count(stored, data, l2_pos))]
    [] fw = "BINARY_SEARCH" -> FlatRankSelectBinary(stored, data, rank)
    [] fw = "INTRINSICS" ->
         LET l2_pos == FlatRankSelectIntrinsics(bit, stored, data, rank)
         IN  [l2_pos |-> l2_pos,
              rank |-> USub(rank, FlatRankSelectL2Count(stored, data, l2_pos))]

\* FlatRankSelect::select1 (bit = 1) and FlatRankSelect::select0 (bit = 0).
\* select0 moves the sampled L1-block forward by ((rank - 1) %
\* SELECT_SAMPLE_RATE) / L1_BIT_SIZE, select1 does not.
FlatRankSelectSelect(bit, o, fw, d, l12, l12_end, samples, rank, junk) ==
  LET stored == (bit = 1) = optimize_one_or_dont_care(o)
      sample_pos == USub(rank, 1) \div SELECT_SAMPLE_RATE
      sample == ReadVec(samples, sample_pos, junk)
      l1_start == IF bit = 0
                    THEN UAdd(sample, (USub(rank, 1) % SELECT_SAMPLE_RATE)
                                        \div FlatL1_BIT_SIZE)
                    ELSE sample
      l1_pos == FlatRankSelectL1Scan(stored, l12, l12_end, l1_start, rank)
      data == ReadAt(l12, l1_pos, JunkBigL12Type(junk))
      rank1 == USub(rank, FlatRankSelectL1Count(stored, data, l1_pos))
      t == FlatRankSelectL2(fw, bit, stored, data, rank1)
      last_pos == (L2_WORD_SIZE * t.l2_pos) + (FlatL1_WORD_SIZE * l1_pos)
      w == WordScan(d, bit, last_pos, t.rank, 0)
  IN  [pos |-> w.pos, words |-> w.words, l1_pos |-> l1_pos,
       l2_pos |-> t.l2_pos, sample_pos |-> sample_pos,
       samples_len |-> Len(samples), l1_guess |-> l1_start]
---------------------------------------------------------------------------
(* WideRankSelect (wide_rank_select.hpp): WideRank plus select samples.    *)

\* WideRankSelectConfig::SELECT_SAMPLE_RATE: a whole number of L2-blocks
\* that is smaller than an L1-block, as in the source (16 of 128)
WideSELECT_SAMPLE_RATE == WideSampleL2 * L2_BIT_SIZE

\* "offset + l2_[l2_pos] >= next_sample1_value", the comparison both tests
\* of WideRankSelect::init contain
WideRankSelectInitReached(l1, l2, l2_pos, next1) ==
  UAdd(l1[l2_pos \div WideL2PerL1], l2[l2_pos]) >= next1

\* "if ((l2_pos * L2_BIT_SIZE) - (offset + l2_[l2_pos] >= next_sample1_value))":
\* the comparison is the subtrahend, the test is whether the difference is
\* not 0
WideRankSelectInitDifference(l1, l2, l2_pos, next1) ==
  USub(l2_pos * L2_BIT_SIZE,
       IF WideRankSelectInitReached(l1, l2, l2_pos, next1) THEN 1 ELSE 0) # 0

\* WideRankSelect::init, "for (l2_pos = 0; l2_pos < l2_end; ++l2_pos)".
\* s = [l2_pos, next0, next1, s0, s1]; the test of the derived polarity is
\* the first one under ONE_QUERIES / DONT_CARE and the second one otherwise
RECURSIVE WideRankSelectInitLoop(_, _, _, _)
WideRankSelectInitLoop(o, l1, l2, s) ==
  IF s.l2_pos < Cardinality(DOMAIN l2)
    THEN LET one == optimize_one_or_dont_care(o)
             reached == WideRankSelectInitReached(l1, l2, s.l2_pos, s.next1)
             differs == WideRankSelectInitDifference(l1, l2, s.l2_pos, s.next1)
             push0 == IF one THEN differs ELSE reached
             push1 == IF one THEN reached ELSE differs
         IN  WideRankSelectInitLoop(o, l1, l2,
               [l2_pos |-> s.l2_pos + 1,
                next0 |-> IF push0 THEN UAdd(s.next0, WideSELECT_SAMPLE_RATE)
                          ELSE s.next0,
                next1 |-> IF push1 THEN UAdd(s.next1, WideSELECT_SAMPLE_RATE)
                          ELSE s.next1,
                s0 |-> IF push0 THEN Append(s.s0, USub(s.l2_pos, 1) % U32Mod)
                       ELSE s.s0,
                s1 |-> IF push1 THEN Append(s.s1, USub(s.l2_pos, 1) % U32Mod)
                       ELSE s.s1])
    ELSE s

\* WideRankSelect::init: [samples0, samples1]
WideRankSelectInit(o, l1, l2) ==
  LET s == WideRankSelectInitLoop(o, l1, l2,
             [l2_pos |-> 0, next0 |-> 1, next1 |-> 1, s0 |-> <<>>, s1 |-> <<>>])
  IN  [samples0 |-> s.s0, samples1 |-> s.s1]

\* the count of the polarity bit before L1-block i
WideRankSelectL1Count(stored, l1, i, junk) ==
  IF stored THEN ReadAt(l1, i, junk)
  ELSE USub(i * WideL1_BIT_SIZE, ReadAt(l1, i, junk))

\* "while (l1_pos + 1 < l1_end && <count of l1_pos + 1> < rank) ++l1_pos"
RECURSIVE WideRankSelectL1Scan(_, _, _, _, _)
WideRankSelectL1Scan(stored, l1, l1_pos, rank, junk) ==
  IF l1_pos + 1 < Cardinality(DOMAIN l1)
     /\ WideRankSelectL1Count(stored, l1, l1_pos + 1, junk) < rank
    THEN WideRankSelectL1Scan(stored, l1, l1_pos + 1, rank, junk)
    ELSE l1_pos

\* FindL2WideWith::LINEAR_SEARCH over the stored polarity:
\* "while (l2_pos + 1 < l2_end && l2_[l2_pos + 1] < rank) ++l2_pos"
RECURSIVE WideRankSelectLinearStored(_, _, _)
WideRankSelectLinearStored(l2, l2_pos, rank) ==
  IF l2_pos + 1 < Cardinality(DOMAIN l2) /\ l2[l2_pos + 1] < rank
    THEN WideRankSelectLinearStored(l2, l2_pos + 1, rank)
    ELSE l2_pos

\* FindL2WideWith::LINEAR_SEARCH over the derived polarity:
\* "while (l2_pos + 1 < l2_end && ((added + 1) * L2_BIT_SIZE) -
\* l2_[l2_pos + 1] < rank) { ++l2_pos; ++added; }": [l2_pos, added]
RECURSIVE WideRankSelectLinearDerived(_, _, _, _)
WideRankSelectLinearDerived(l2, l2_pos, added, rank) ==
  IF l2_pos + 1 < Cardinality(DOMAIN l2)
     /\ USub((added + 1) * L2_BIT_SIZE, l2[l2_pos + 1]) < rank
    THEN WideRankSelectLinearDerived(l2, l2_pos + 1, added + 1, rank)
    ELSE [l2_pos |-> l2_pos, added |-> added]

\* tlx::integer_log2_ceil(i): the least n with 2^n >= i, 0 for i <= 1
RECURSIVE integer_log2_ceil(_)
integer_log2_ceil(i) ==
  IF i <= 1 THEN 0 ELSE 1 + integer_log2_ceil((i + 1) \div 2)

\* the value FindL2WideWith::BINARY_SEARCH compares rank with at mid:
\* l2_[mid] or ((mid - offset) * L2_BIT_SIZE) - l2_[mid]
WideRankSelectL2Count(stored, l2, offset, mid, junk) ==
  IF stored THEN ReadAt(l2, mid, junk % 65536)
  ELSE USub(USub(mid, offset) * L2_BIT_SIZE, ReadAt(l2, mid, junk % 65536))

\* "while (size > 0) { start_next_left = (rank > <count at mid>) ?
\* start_next_right : start_next_left; start_next_right = start_next_left +
\* size; mid = start_next_left + size - 1; size >>= 1; }".
\* s = [size, mid, start_next_left, start_next_right]
RECURSIVE WideRankSelectBinaryLoop(_, _, _, _, _, _)
WideRankSelectBinaryLoop(stored, l2, offset, rank, junk, s) ==
  IF s.size > 0
    THEN LET left == IF rank > WideRankSelectL2Count(stored, l2, offset, s.mid, junk)
                       THEN s.start_next_right ELSE s.start_next_left
         IN  WideRankSelectBinaryLoop(stored, l2, offset, rank, junk,
               [size |-> s.size \div 2,
                mid |-> USub(UAdd(left, s.size), 1),
                start_next_left |-> left,
                start_next_right |-> UAdd(left, s.size)])
    ELSE s

\* FindL2WideWith::BINARY_SEARCH: [l2_pos, rank].  "1ULL << (iterations - 1)"
\* with iterations = 0 is a shift by more than the width, whose value is
\* whatever the machine produces (junk).
WideRankSelectBinary(stored, l2, l1_pos, l2_pos, rank, junk) ==
  LET end == Min((l1_pos + 1) * WideL2PerL1, Cardinality(DOMAIN l2))
      iterations == integer_log2_ceil(UAdd(USub(end, l2_pos), 1))
      size == IF iterations = 0 THEN junk % SizeMod
              ELSE (2^(iterations - 1)) % SizeMod
      mid == USub(end, size)
      offset == WideL2PerL1 * l1_pos
      s == WideRankSelectBinaryLoop(stored, l2, offset, rank, junk,
             [size |-> size \div 2, mid |-> mid,
              start_next_left |-> l2_pos, start_next_right |-> UAdd(mid, 1)])
      found == IF rank > WideRankSelectL2Count(stored, l2, offset, s.mid, junk)
                 THEN s.mid ELSE USub(s.start_next_left, 1)
  IN  [l2_pos |-> found,
       rank |-> USub(rank, WideRankSelectL2Count(stored, l2, offset, found, junk))]

\* FindL2WideWith::LINEAR_SEARCH: [l2_pos, rank]
WideRankSelectLinear(stored, l2, l2_pos, rank, junk) ==
  IF stored
    THEN LET found == WideRankSelectLinearStored(l2, l2_pos, rank)
         IN  [l2_pos |-> found,
              rank |-> USub(rank, ReadAt(l2, found, junk % 65536))]
    ELSE LET t == WideRankSelectLinearDerived(l2, l2_pos, 0, rank)
         IN  [l2_pos |-> t.l2_pos,
              rank |-> USub(rank, USub(t.added * L2_BIT_SIZE,
                                       ReadAt(l2, t.l2_pos, junk % 65536)))]

\* WideRankSelect::select1 (bit = 1) and WideRankSelect::select0 (bit = 0).
\* The first guess of the L2-block is (rank - 1) / SELECT_SAMPLE_RATE; the
\* sample arrays are not read.
WideRankSelectSelect(bit, o, fw, d, l1, l2, rank, junk) ==
  LET stored == (bit = 1) = optimize_one_or_dont_care(o)
      guess == USub(rank, 1) \div WideSELECT_SAMPLE_RATE
      l1_pos == WideRankSelectL1Scan(stored, l1, guess \div WideL2PerL1, rank, junk)
      rank1 == USub(rank, WideRankSelectL1Count(stored, l1, l1_pos, junk))
      l2_start == Max(l1_pos * WideL2PerL1, guess)
      t == IF fw = "LINEAR_SEARCH"
             THEN WideRankSelectLinear(stored, l2, l2_start, rank1, junk)
             ELSE WideRankSelectBinary(stored, l2, l1_pos, l2_start, rank1, junk)
      last_pos == (t.l2_pos * L2_WORD_SIZE) % SizeMod
      w == WordScan(d, bit, last_pos, t.rank, 0)
  IN  [pos |-> w.pos, words |-> w.words, l1_pos |-> l1_pos,
       l2_start |-> l2_start, l2_pos |-> t.l2_pos, guess |-> guess]
---------------------------------------------------------------------------
(* The bit vectors the indexes are built over: a length, a content and the *)
(* bits of the last word behind the length (BitVector(size) leaves them    *)
(* as they were; nothing in the library ever clears them).                 *)

Patterns == {"zeros", "ones", "alt", "third", "head", "tail", "sparse", "dense"}

PatternBit(p, j, n) ==
  CASE p = "zeros"  -> 0
    [] p = "ones"   -> 1
    [] p = "alt"    -> j % 2
    [] p = "third"  -> IF j % 3 = 0 THEN 1 ELSE 0
    [] p = "head"   -> IF 2 * j < n THEN 1 ELSE 0
    [] p = "tail"   -> IF 2 * j >= n THEN 1 ELSE 0
    [] p = "sparse" -> IF j % 7 = 3 THEN 1 ELSE 0
    [] p = "dense"  -> IF j % 5 = 0 THEN 0 ELSE 1

\* the word that holds the bits [w * WordBits + b, (w + 1) * WordBits)
RECURSIVE PatternWord(_, _, _, _, _)
PatternWord(p, n, pad, w, b) ==
  IF b = WordBits THEN 0
  ELSE LET j == (w * WordBits) + b
       IN  (IF j < n THEN PatternBit(p, j, n) ELSE pad)
             + 2 * PatternWord(p, n, pad, w, b + 1)

PatternData(p, n, pad) ==
  [w \in 0..(WordCount(n) - 1) |-> PatternWord(p, n, pad, w, 0)]

\* what storage that was never written can hold, and what a read outside an
\* array can return
JunkValues == {0, 1, UINT64_MAX}
ReadJunkValues == {0, UINT64_MAX}

InitVector(lengths) ==
  /\ bit_size_ \in lengths
  /\ size_ = WordCount(bit_size_)
  /\ \E p \in Patterns, pad \in {0, 1} : data_ = PatternData(p, bit_size_, pad)
  /\ NoIndex
  /\ last = [op |-> "construct"]

\* the number of 1-bits of the vector at the positions [0, i)
Ones(i) == Cardinality({j \in 0..(i - 1) : Get(data_, j) = 1})

---------------------------------------------------------------------------
(* Rank<OptimizedFor> over a bit vector.                                   *)

OptimizedFor == {"DONT_CARE", "ONE_QUERIES", "ZERO_QUERIES"}

\* lengths around the L2-, L1- and L0-block boundaries, with word counts
\* that are and are not multiples of the block sizes, up to three L0-blocks
RankLengths ==
  {0, 1, L2_BIT_SIZE - 1, L2_BIT_SIZE, L2_BIT_SIZE + 1,
   (3 * L2_BIT_SIZE) + 1,
   PopcntL1_BIT_SIZE - 1, PopcntL1_BIT_SIZE, PopcntL1_BIT_SIZE + 1,
   (2 * PopcntL1_BIT_SIZE) - WordBits,
   PopcntL0_BIT_SIZE - 1, PopcntL0_BIT_SIZE, PopcntL0_BIT_SIZE + 1,
   PopcntL0_BIT_SIZE + PopcntL1_BIT_SIZE + L2_BIT_SIZE + 2,
   (2 * PopcntL0_BIT_SIZE) + 2}

InitRank == InitVector(RankLengths)

\* Rank<o> rs(bv)
BuildRank(o, junk) ==
  /\ pc = "bv"
  /\ pc' = "built"
  /\ kind' = "classic"
  /\ optimized_for' = o
  /\ LET r == RankInit(o, data_, size_, junk)
     IN  l0_' = r.l0 /\ l12_' = r.l12
  /\ last' = [op |-> "build"]
  /\ UNCHANGED <<bvVars, find_with, l12_end_, l1_, l2_,
                 samples0_pos_, samples1_pos_, samples0_, samples1_, queries>>

\* rank1 / rank0 of the index that was built
IndexRank1(index) ==
  CASE kind = "classic" -> RankRank1(optimized_for, data_, l0_, l12_, index)
    [] kind = "flat"    -> FlatRank1(optimized_for, data_, l12_, index)
    [] kind = "wide"    -> WideRank1(optimized_for, data_, l1_, l2_, index)

IndexRank0(index) ==
  CASE kind = "classic" -> RankRank0(optimized_for, data_, l0_, l12_, index)
    [] kind = "flat"    -> FlatRank0(optimized_for, data_, l12_, index)
    [] kind = "wide"    -> WideRank0(optimized_for, data_, l1_, l2_, index)

\* rs.rank1(index) for an index in [0, n]
QueryRank1MutantCachesResult ==
  /\ pc = "built"
  /\ queries < MaxQueries
  /\ queries' = queries + 1
  /\ \E index \in 0..bit_size_ :
        /\ last' = [op |-> "rank1", index |-> index,
                    result |-> IndexRank1(index)]
        /\ samples1_' = <<IndexRank1(index)>>
  /\ UNCHANGED <<bvVars, pc, cfgVars, l0_, l12_, l12_end_, l1_, l2_,
                 samples0_pos_, samples1_pos_, samples0_>>

QueryRank1 ==
  /\ pc = "built"
  /\ queries < MaxQueries
  /\ queries' = queries + 1
  /\ \E index \in 0..bit_size_ :
        last' = [op |-> "rank1", index |-> index, result |-> IndexRank1(index)]
  /\ UNCHANGED <<bvVars, pc, cfgVars, idxVars>>

\* rs.rank0(index) for an index in [0, n]
QueryRank0 ==
  /\ pc = "built"
  /\ queries < MaxQueries
  /\ queries' = queries + 1
  /\ \E index \in 0..bit_size_ :
        last' = [op |-> "rank0", index |-> index, result |-> IndexRank0(index)]
  /\ UNCHANGED <<bvVars, pc, cfgVars, idxVars>>

NextRank ==
  \/ \E o \in OptimizedFor, junk \in JunkValues : BuildRank(o, junk)
  \/ QueryRank1
  \/ QueryRank0

SpecRank == InitRank /\ [][NextRank]_vars

(* C1: for the classic Rank, every OptimizedFor and every i in [0, n],     *)
(* rank1(i) is the number of 1-bits at the positions [0, i) and rank0(i)   *)
(* is i - rank1(i) (hence rank1(0) = 0, rank1(n) = |P|, steps of 0 or 1),  *)
(* on block boundaries and on vectors of more than one L0-block too.       *)
C1_RankCorrect ==
  kind = "classic" =>
    /\ last.op = "rank1" => last.result = Ones(last.index)
    /\ last.op = "rank0" => last.result = last.index - Ones(last.index)

\* a zero-optimised rank1 at the end of a vector of more than two L0-blocks
\* whose last L1-block is not full
C1_Witness ==
  /\ kind = "classic"
  /\ optimized_for = "ZERO_QUERIES"
  /\ last.op = "rank1"
  /\ last.index = bit_size_
  /\ bit_size_ > 2 * PopcntL0_BIT_SIZE
  /\ last.result > 0
  /\ last.result < bit_size_

---------------------------------------------------------------------------
(* FlatRank<OptimizedFor> and WideRank<OptimizedFor> over a bit vector.    *)

\* lengths around the L2- and L1-block boundaries, with word counts that are
\* exact multiples of the L2 and of the L1 word size
FlatWideLengths ==
  {0, 1, L2_BIT_SIZE - 1, L2_BIT_SIZE, L2_BIT_SIZE + 1,
   FlatL1_BIT_SIZE - WordBits, FlatL1_BIT_SIZE - 1, FlatL1_BIT_SIZE,
   FlatL1_BIT_SIZE + 1,
   WideL1_BIT_SIZE - WordBits, WideL1_BIT_SIZE - 1, WideL1_BIT_SIZE,
   WideL1_BIT_SIZE + 1,
   (2 * FlatL1_BIT_SIZE) - 1, 2 * FlatL1_BIT_SIZE,
   (2 * WideL1_BIT_SIZE) - 1, 2 * WideL1_BIT_SIZE,
   (2 * FlatL1_BIT_SIZE) + L2_BIT_SIZE + 1,
   (3 * WideL1_BIT_SIZE) + 2}

InitFlatWide == InitVector(FlatWideLengths)

\* FlatRank<o> rs(bv)
BuildFlatRank(o, junk) ==
  /\ pc = "bv"
  /\ pc' = "built"
  /\ kind' = "flat"
  /\ optimized_for' = o
  /\ LET r == FlatRankInit(o, data_, size_, junk)
     IN  l12_' = r.l12 /\ l12_end_' = r.l12_end
  /\ last' = [op |-> "build"]
  /\ UNCHANGED <<bvVars, find_with, l0_, l1_, l2_,
                 samples0_pos_, samples1_pos_, samples0_, samples1_, queries>>

\* WideRank<o> rs(bv)
BuildWideRank(o, junk) ==
  /\ pc = "bv"
  /\ pc' = "built"
  /\ kind' = "wide"
  /\ optimized_for' = o
  /\ LET r == WideRankInit(o, data_, size_, junk)
     IN  l1_' = r.l1 /\ l2_' = r.l2
  /\ last' = [op |-> "build"]
  /\ UNCHANGED <<bvVars, find_with, l0_, l12_, l12_end_,
                 samples0_pos_, samples1_pos_, samples0_, samples1_, queries>>

NextFlatWideRank ==
  \/ \E o \in OptimizedFor, junk \in JunkValues : BuildFlatRank(o, junk)
  \/ \E o \in OptimizedFor, junk \in JunkValues : BuildWideRank(o, junk)
  \/ QueryRank1
  \/ QueryRank0

SpecFlatWideRank == InitFlatWide /\ [][NextFlatWideRank]_vars

(* C2: for FlatRank and WideRank, every OptimizedFor and every i in        *)
(* [0, n], rank1(i) is the number of 1-bits at the positions [0, i) and    *)
(* rank0(i) = i - rank1(i); i = n, block boundaries and word counts that   *)
(* are exact multiples of the L2 or L1 word size included.                 *)
C2_FlatWideRankCorrect ==
  kind \in {"flat", "wide"} =>
    /\ last.op = "rank1" => last.result = Ones(last.index)
    /\ last.op = "rank0" => last.result + Ones(last.index) = last.index

\* a flat rank1(n) on a vector whose word count is a multiple of the L1 word
\* size and that has more than one L1-block
C2_WitnessFlat ==
  /\ kind = "flat"
  /\ last.op = "rank1"
  /\ last.index = bit_size_
  /\ size_ = 2 * FlatL1_WORD_SIZE
  /\ last.result > 0
  /\ last.result < bit_size_

\* a wide rank0 on an L1-block boundary of a vector of that many words
C2_WitnessWide ==
  /\ kind = "wide"
  /\ optimized_for = "ZERO_QUERIES"
  /\ last.op = "rank0"
  /\ last.index = WideL1_BIT_SIZE
  /\ size_ > WideL1_WORD_SIZE
  /\ last.result > 0
  /\ last.result < last.index

---------------------------------------------------------------------------
(* RankSelect<OptimizedFor> over a bit vector.                             *)

\* the number of bits of polarity bit at the positions [0, i)
Count(bit, i) == IF bit = 1 THEN Ones(i) ELSE i - Ones(i)

\* pos is the position of the rank-th bit of polarity bit
IsKthBit(bit, rank, pos) ==
  /\ pos \in 0..(bit_size_ - 1)
  /\ Get(data_, pos) = bit
  /\ Count(bit, pos) = rank - 1

\* rank is a valid argument of select for polarity bit
ValidRank(bit, rank) == rank >= 1 /\ rank <= Count(bit, bit_size_)

\* vectors shorter than one L1-block, around the L1- and L0-block boundaries,
\* just beyond one sample rate, and of more than two L0-blocks
RankSelectLengths ==
  {1, L2_BIT_SIZE + 1, PopcntL1_BIT_SIZE - WordBits - 1,
   PopcntL1_BIT_SIZE, PopcntL1_BIT_SIZE + 1,
   SELECT_SAMPLE_RATE + WordBits + 1,
   PopcntL0_BIT_SIZE - 1, PopcntL0_BIT_SIZE + 1,
   (2 * PopcntL0_BIT_SIZE) + PopcntL1_BIT_SIZE + L2_BIT_SIZE + 2}

InitRankSelect == InitVector(RankSelectLengths)

\* RankSelect<o> rs(bv): Rank<o>(bv), then RankSelect::init
BuildRankSelect(o, junk) ==
  /\ pc = "bv"
  /\ pc' = "built"
  /\ kind' = "classic"
  /\ optimized_for' = o
  /\ LET r == RankInit(o, data_, size_, junk)
         t == RankSelectInit(o, r.l12, size_, junk)
     IN  /\ l0_' = r.l0
         /\ l12_' = r.l12
         /\ samples0_pos_' = t.samples0_pos
         /\ samples1_pos_' = t.samples1_pos
         /\ samples0_' = t.samples0
         /\ samples1_' = t.samples1
  /\ last' = [op |-> "build"]
  /\ UNCHANGED <<bvVars, find_with, l12_end_, l1_, l2_, queries>>

\* select1 / select0 of the index that was built
IndexSelect(bit, rank, junk) ==
  CASE kind = "classic" ->
         RankSelectSelect(bit, optimized_for, data_, size_, l0_, l12_,
                          IF bit = 1 THEN samples1_pos_ ELSE samples0_pos_,
                          IF bit = 1 THEN samples1_ ELSE samples0_, rank, junk)
    [] kind = "flat" ->
         FlatRankSelectSelect(bit, optimized_for, find_with, data_, l12_,
                              l12_end_,
                              IF bit = 1 THEN samples1_ ELSE samples0_, rank, junk)
    [] kind = "wide" ->
         WideRankSelectSelect(bit, optimized_for, find_with, data_, l1_, l2_,
                              rank, junk)

\* rs.select1(rank) (bit = 1) and rs.select0(rank) (bit = 0); junk is what
\* a read outside the arrays returns.  The ranks tried are 0, the valid ones
\* and invalid ones up to n + 1.
QuerySelect(bit) ==
  /\ pc = "built"
  /\ queries < MaxQueries
  /\ queries' = queries + 1
  /\ \E rank \in 0..(bit_size_ + 1), junk \in ReadJunkValues :
        LET r == IndexSelect(bit, rank, junk)
        IN  last' = [op |-> "select", bit |-> bit, rank |-> rank,
                     result |-> r.pos, trace |-> r]
  /\ UNCHANGED <<bvVars, pc, cfgVars, idxVars>>

NextRankSelect ==
  \/ \E o \in OptimizedFor, junk \in JunkValues : BuildRankSelect(o, junk)
  \/ QuerySelect(1)
  \/ QuerySelect(0)

SpecRankSelect == InitRankSelect /\ [][NextRankSelect]_vars

(* C3: for the classic RankSelect, every OptimizedFor and every k in       *)
(* [1, |P|], select1(k) is the position of the k-th 1-bit (so that         *)
(* rank1(select1(k)) = k - 1 and rank1(select1(k) + 1) = k), and select0   *)
(* likewise for every k in [1, |Z|]; vectors shorter than one L1-block     *)
(* and a k-th bit in the last L1-block included.                           *)
C3_RankSelectCorrect ==
  (kind = "classic" /\ last.op = "select" /\ ValidRank(last.bit, last.rank))
    => IsKthBit(last.bit, last.rank, last.result)

---------------------------------------------------------------------------
(* FlatRankSelect<OptimizedFor, FindL2FlatWith> over a bit vector.         *)

FindL2FlatWith == {"LINEAR_SEARCH", "BINARY_SEARCH", "INTRINSICS"}

\* vectors shorter than one L1-block, around the L1-block boundary, of a
\* word count that is a multiple of the L1-block's (one and three
\* L1-blocks), and beyond one sample rate with and without an L1-block
\* starting behind the sampled bit
FlatSelectLengths ==
  {1, L2_BIT_SIZE + 1, FlatL1_BIT_SIZE - 1, FlatL1_BIT_SIZE,
   FlatL1_BIT_SIZE + 1, 2 * FlatL1_BIT_SIZE,
   (3 * FlatL1_BIT_SIZE) - 1,
   SELECT_SAMPLE_RATE + FlatL1_BIT_SIZE + L2_BIT_SIZE + 2}

InitFlatSelect == InitVector(FlatSelectLengths)

\* FlatRankSelect<o, fw> rs(bv): FlatRank<o>(bv), then FlatRankSelect::init
BuildFlatRankSelect(o, fw, junk) ==
  /\ pc = "bv"
  /\ pc' = "built"
  /\ kind' = "flat"
  /\ optimized_for' = o
  /\ find_with' = fw
  /\ LET r == FlatRankInit(o, data_, size_, junk)
         t == FlatRankSelectInit(o, r.l12)
     IN  /\ l12_' = r.l12
         /\ l12_end_' = r.l12_end
         /\ samples0_' = t.samples0
         /\ samples1_' = t.samples1
  /\ last' = [op |-> "build"]
  /\ UNCHANGED <<bvVars, l0_, l1_, l2_, samples0_pos_, samples1_pos_, queries>>

\* rs.select1(rs.rank1(index) + 1) (bit = 1) and rs.select0(rs.rank0(index)
\* + 1) (bit = 0) for an index in [0, n); junk is what a read outside the
\* arrays returns
QuerySelectOfRank(bit) ==
  /\ pc = "built"
  /\ queries < MaxQueries
  /\ queries' = queries + 1
  /\ \E index \in 0..(bit_size_ - 1), junk \in ReadJunkValues :
        LET rank == UAdd(IF bit = 1 THEN IndexRank1(index)
                         ELSE IndexRank0(index), 1)
            r == IndexSelect(bit, rank, junk)
        IN  last' = [op |-> "select", bit |-> bit, index |-> index,
                     rank |-> rank, result |-> r.pos, trace |-> r]
  /\ UNCHANGED <<bvVars, pc, cfgVars, idxVars>>

NextFlatSelect ==
  \/ \E o \in OptimizedFor, fw \in FindL2FlatWith, junk \in JunkValues :
        BuildFlatRankSelect(o, fw, junk)
  \/ QuerySelectOfRank(1)
  \/ QuerySelectOfRank(0)

SpecFlatSelect == InitFlatSelect /\ [][NextFlatSelect]_vars

(* C4: for FlatRankSelect with LINEAR_SEARCH or BINARY_SEARCH, every       *)
(* OptimizedFor and every position i in [0, n): if B[i] = 1 then           *)
(* select1(rank1(i) + 1) = i, and if B[i] = 0 then select0(rank0(i) + 1)   *)
(* = i.                                                                    *)
C4_FlatSelectInvertsRank ==
  (/\ kind = "flat"
   /\ find_with \in {"LINEAR_SEARCH", "BINARY_SEARCH"}
   /\ last.op = "select"
   /\ Get(data_, last.index) = last.bit)
    => last.result = last.index

\* a select0 with BINARY_SEARCH over stored 1-counts, beyond the first sample
\* and into a later L2-block, that returns the position it was asked for
C4_Witness ==
  /\ kind = "flat"
  /\ find_with = "BINARY_SEARCH"
  /\ optimized_for = "ONE_QUERIES"
  /\ last.op = "select"
  /\ last.bit = 0
  /\ Get(data_, last.index) = 0
  /\ last.rank > SELECT_SAMPLE_RATE
  /\ last.trace.l2_pos > 0
  /\ last.trace.l1_pos > 0
  /\ last.result = last.index

\* the position FlatRankSelect<optimized_for, fw> returns for the query in
\* last; the index a FlatRankSelect builds does not depend on fw
FlatSelectWith(fw, junk) ==
  FlatRankSelectSelect(last.bit, optimized_for, fw, data_, l12_, l12_end_,
                       IF last.bit = 1 THEN samples1_ ELSE samples0_,
                       last.rank, junk).pos

(* C8: for FlatRankSelect, every OptimizedFor, both polarities and every   *)
(* valid k, the LINEAR_SEARCH, BINARY_SEARCH and INTRINSICS instantiations *)
(* return the same position for select1(k) and for select0(k).             *)
C8_FlatStrategiesAgree ==
  (kind = "flat" /\ last.op = "select" /\ ValidRank(last.bit, last.rank))
    => \A fw \in FindL2FlatWith \ {find_with}, junk \in ReadJunkValues :
          FlatSelectWith(fw, junk) = last.result

\* a select0 with INTRINSICS over stored 1-counts whose L2-block differs from
\* the one LINEAR_SEARCH finds, at the same final position
C8_Witness ==
  /\ kind = "flat"
  /\ find_with = "INTRINSICS"
  /\ optimized_for = "DONT_CARE"
  /\ last.op = "select"
  /\ last.bit = 0
  /\ ValidRank(0, last.rank)
  /\ last.trace.l2_pos >
       FlatRankSelectSelect(0, optimized_for, "LINEAR_SEARCH", data_, l12_,
                            l12_end_, samples0_, last.rank, 0).l2_pos
  /\ FlatSelectWith("LINEAR_SEARCH", 0) = last.result
  /\ FlatSelectWith("BINARY_SEARCH", 0) = last.result

---------------------------------------------------------------------------
(* WideRankSelect<OptimizedFor, FindL2WideWith> over a bit vector.         *)

FindL2WideWith == {"LINEAR_SEARCH", "BINARY_SEARCH"}

\* vectors shorter than one L2-block, of a word count that is and is not a
\* multiple of the L2-block's and of the L1-block's, beyond one sample rate,
\* and of more than one and more than two L1-blocks
WideSelectLengths ==
  {1, L2_BIT_SIZE + 1, (2 * L2_BIT_SIZE) - 1,
   WideSELECT_SAMPLE_RATE + L2_BIT_SIZE + 1,
   WideL1_BIT_SIZE - 1, WideL1_BIT_SIZE, WideL1_BIT_SIZE + 1,
   WideL1_BIT_SIZE + L2_BIT_SIZE + 2,
   (2 * WideL1_BIT_SIZE) + L2_BIT_SIZE + 1}

InitWideSelect == InitVector(WideSelectLengths)

\* WideRankSelect<o, fw> rs(bv): WideRank<o>(bv), then WideRankSelect::init
BuildWideRankSelect(o, fw, junk) ==
  /\ pc = "bv"
  /\ pc' = "built"
  /\ kind' = "wide"
  /\ optimized_for' = o
  /\ find_with' = fw
  /\ LET r == WideRankInit(o, data_, size_, junk)
         t == WideRankSelectInit(o, r.l1, r.l2)
     IN  /\ l1_' = r.l1
         /\ l2_' = r.l2
         /\ samples0_' = t.samples0
         /\ samples1_' = t.samples1
  /\ last' = [op |-> "build"]
  /\ UNCHANGED <<bvVars, l0_, l12_, l12_end_, samples0_pos_, samples1_pos_,
                 queries>>

NextWideSelect ==
  \/ \E o \in OptimizedFor, fw \in FindL2WideWith, junk \in JunkValues :
        BuildWideRankSelect(o, fw, junk)
  \/ QuerySelect(1)
  \/ QuerySelect(0)

SpecWideSelect == InitWideSelect /\ [][NextWideSelect]_vars

\* the query in last asks for the polarity the index stores
StoredPolarity == (last.bit = 1) = optimize_one_or_dont_care(optimized_for)

(* C5: for WideRankSelect with LINEAR_SEARCH and the stored polarity       *)
(* (select1 under ONE_QUERIES or DONT_CARE, select0 under ZERO_QUERIES),   *)
(* every valid k yields the position of the k-th bit of that polarity,     *)
(* also when that bit lies in the last L2-block of an L1-block that is     *)
(* followed by further L1-blocks.                                          *)
C5_WideLinearStored ==
  (/\ kind = "wide"
   /\ find_with = "LINEAR_SEARCH"
   /\ last.op = "select"
   /\ StoredPolarity
   /\ ValidRank(last.bit, last.rank))
    => IsKthBit(last.bit, last.rank, last.result)

\* the position the LINEAR_SEARCH instantiation that stores the polarity of
\* the query in last returns for that query, over an index built for it
WideSelectStoring(junk) ==
  LET o == IF last.bit = 1 THEN "ONE_QUERIES" ELSE "ZERO_QUERIES"
      r == WideRankInit(o, data_, size_, junk)
  IN  WideRankSelectSelect(last.bit, o, "LINEAR_SEARCH", data_, r.l1, r.l2,
                           last.rank, junk).pos

(* C6: for WideRankSelect with LINEAR_SEARCH and the derived polarity      *)
(* (select0 under ONE_QUERIES or DONT_CARE, select1 under ZERO_QUERIES),   *)
(* every valid k yields the position of the k-th bit of that polarity,     *)
(* which is also what the instantiation storing that polarity returns;     *)
(* k > SELECT_SAMPLE_RATE, where the L2 walk starts behind the first L2    *)
(* entry of the L1-block, included.                                        *)
C6_WideLinearDerived ==
  (/\ kind = "wide"
   /\ find_with = "LINEAR_SEARCH"
   /\ last.op = "select"
   /\ ~StoredPolarity
   /\ ValidRank(last.bit, last.rank))
    => /\ IsKthBit(last.bit, last.rank, last.result)
       /\ \A junk \in ReadJunkValues : WideSelectStoring(junk) = last.result

(* C7: for WideRankSelect with BINARY_SEARCH, every OptimizedFor, both     *)
(* polarities and every valid k, select returns the position of the k-th   *)
(* bit of that polarity, whatever the size of the search range             *)
(* [l2_pos, min((l1 + 1) * 128, |L2|)).                                    *)
C7_WideBinary ==
  (/\ kind = "wide"
   /\ find_with = "BINARY_SEARCH"
   /\ last.op = "select"
   /\ ValidRank(last.bit, last.rank))
    => IsKthBit(last.bit, last.rank, last.result)


---------------------------------------------------------------------------
(* The raw words of a BitVector (data()) and what bv[i] and the indexes    *)
(* make of them.                                                           *)

\* vectors of one word and of two words
LayoutLengths == {WordBits - 1, (2 * WordBits) - 1}

InitLayout == InitVector(LayoutLengths)

\* bv.data()[index] = value
StoreWord(index, value) ==
  /\ pc = "bv"
  /\ index < size_
  /\ data_' = [data_ EXCEPT ![index] = value]
  /\ last' = [op |-> "store", index |-> index, value |-> value]
  /\ UNCHANGED <<bit_size_, size_, pc, cfgVars, idxVars, queries>>

\* Rank and WideRank have no select; FlatRankSelect has rank and select
NextLayout ==
  \/ \E index \in 0..(WordCount(MaxBitsBV) - 1), value \in Words :
        StoreWord(index, value)
  \/ \E index \in 0..(MaxBitsBV - 1) : ReadBit(index)
  \/ \E o \in OptimizedFor, junk \in JunkValues : BuildRank(o, junk)
  \/ \E o \in OptimizedFor, junk \in JunkValues : BuildWideRank(o, junk)
  \/ \E o \in OptimizedFor, fw \in FindL2FlatWith, junk \in JunkValues :
        BuildFlatRankSelect(o, fw, junk)
  \/ QueryRank1
  \/ QueryRank0
  \/ kind = "flat" /\ QuerySelectOfRank(1)
  \/ kind = "flat" /\ QuerySelectOfRank(0)

SpecLayout == InitLayout /\ [][NextLayout]_vars

\* bit (i mod 64), counted from the least significant bit, of word (i div
\* 64) of the view data() returns, by arithmetic on the word
LayoutBit(i) == (data_[i \div WordBits] \div (2^(i % WordBits))) % 2

\* the number of positions in [0, i) whose bit in that view is 1
LayoutOnes(i) == Cardinality({j \in 0..(i - 1) : LayoutBit(j) = 1})

(* C11: bv[i] is bit (i mod 64), counted from the least significant bit,   *)
(* of word (i div 64) of data(); a word stored through data() is read back *)
(* under this mapping by bv[i], and rank and select of an index built over *)
(* the words count and locate the bits under the same mapping.             *)
C11_BitLayout ==
  /\ last.op = "get" => last.result = LayoutBit(last.index)
  /\ last.op = "store" =>
       \A i \in 0..(bit_size_ - 1) :
          i \div WordBits = last.index =>
            Get(data_, i) = (last.value \div (2^(i % WordBits))) % 2
  /\ last.op = "rank1" => last.result = LayoutOnes(last.index)
  /\ last.op = "rank0" => last.result = last.index - LayoutOnes(last.index)
  /\ (last.op = "select" /\ LayoutBit(last.index) = last.bit) =>
       last.result = last.index

\* a rank1 over words that no constructor pattern produces, so that a store
\* through data() came before the index was built
C11_Witness ==
  /\ last.op = "rank1"
  /\ last.index = bit_size_
  /\ last.result > 1
  /\ last.result < bit_size_
  /\ \A p \in Patterns, pad \in {0, 1} : data_ # PatternData(p, bit_size_, pad)


(* C12: for the classic RankSelect, select1(k) with k greater than the     *)
(* number of 1-bits returns the sentinel data_size, the word count times   *)
(* 64, a position past the end of the vector.                              *)
C12_SelectPastEnd ==
  (/\ kind = "classic"
   /\ last.op = "select"
   /\ last.bit = 1
   /\ last.rank > Count(1, bit_size_))
    => last.result = size_ * WordBits


---------------------------------------------------------------------------
(* The three rank and select structures over vectors that differ in the    *)
(* padding bits only.                                                      *)

\* lengths with and without padding inside the last L2- and L1-block
PaddingLengths ==
  {1, L2_BIT_SIZE + 1, PopcntL1_BIT_SIZE, WideL1_BIT_SIZE - 1,
   WideL1_BIT_SIZE + L2_BIT_SIZE + 2}

InitPadding == InitVector(PaddingLengths)

NextPadding ==
  \/ \E o \in OptimizedFor, junk \in JunkValues : BuildRankSelect(o, junk)
  \/ \E o \in OptimizedFor, fw \in FindL2FlatWith, junk \in JunkValues :
        BuildFlatRankSelect(o, fw, junk)
  \/ \E o \in OptimizedFor, fw \in FindL2WideWith, junk \in JunkValues :
        BuildWideRankSelect(o, fw, junk)
  \/ QueryRank1
  \/ QueryRank0
  \/ QuerySelect(1)
  \/ QuerySelect(0)

SpecPadding == InitPadding /\ [][NextPadding]_vars

\* the words of a vector of n bits that agrees with d on [0, n) and was
\* created with the fill value pad: BitVector(n, pad), then the n bits of d
RECURSIVE FilledWord(_, _, _, _, _)
FilledWord(d, n, pad, w, b) ==
  IF b = WordBits THEN 0
  ELSE LET j == (w * WordBits) + b
       IN  (IF j < n THEN Get(d, j) ELSE pad)
             + 2 * FilledWord(d, n, pad, w, b + 1)

Filled(d, n, pad) == [w \in DOMAIN d |-> FilledWord(d, n, pad, w, 0)]

\* rank1 / rank0 (bit = 1 / 0) of the index of the same kind and
\* configuration, built over the vector with the fill value pad
RankOverFilled(bit, index, pad, junk) ==
  LET d == Filled(data_, bit_size_, pad)
  IN  CASE kind = "classic" ->
             LET r == RankInit(optimized_for, d, size_, junk)
             IN  IF bit = 1
                 THEN RankRank1(optimized_for, d, r.l0, r.l12, index)
                 ELSE RankRank0(optimized_for, d, r.l0, r.l12, index)
        [] kind = "flat" ->
             LET r == FlatRankInit(optimized_for, d, size_, junk)
             IN  IF bit = 1 THEN FlatRank1(optimized_for, d, r.l12, index)
                 ELSE FlatRank0(optimized_for, d, r.l12, index)
        [] kind = "wide" ->
             LET r == WideRankInit(optimized_for, d, size_, junk)
             IN  IF bit = 1 THEN WideRank1(optimized_for, d, r.l1, r.l2, index)
                 ELSE WideRank0(optimized_for, d, r.l1, r.l2, index)

\* select1 / select0 of the index of the same kind and configuration, built
\* over the vector with the fill value pad
SelectOverFilled(bit, rank, pad, junk, read) ==
  LET d == Filled(data_, bit_size_, pad)
  IN  CASE kind = "classic" ->
             LET r == RankInit(optimized_for, d, size_, junk)
                 t == RankSelectInit(optimized_for, r.l12, size_, junk)
             IN  RankSelectSelect(bit, optimized_for, d, size_, r.l0, r.l12,
                                  IF bit = 1 THEN t.samples1_pos
                                  ELSE t.samples0_pos,
                                  IF bit = 1 THEN t.samples1 ELSE t.samples0,
                                  rank, read).pos
        [] kind = "flat" ->
             LET r == FlatRankInit(optimized_for, d, size_, junk)
                 t == FlatRankSelectInit(optimized_for, r.l12)
             IN  FlatRankSelectSelect(bit, optimized_for, find_with, d, r.l12,
                                      r.l12_end,
                                      IF bit = 1 THEN t.samples1
                                      ELSE t.samples0, rank, read).pos
        [] kind = "wide" ->
             LET r == WideRankInit(optimized_for, d, size_, junk)
             IN  WideRankSelectSelect(bit, optimized_for, find_with, d, r.l1,
                                      r.l2, rank, read).pos

\* the level arrays of the index are those that construction over the
\* vector gives when the storage it never assigns holds junk
BuiltWith(junk) ==
  CASE kind = "classic" ->
         LET r == RankInit(optimized_for, data_, size_, junk)
         IN  r.l0 = l0_ /\ r.l12 = l12_
    [] kind = "flat" ->
         FlatRankInit(optimized_for, data_, size_, junk).l12 = l12_
    [] kind = "wide" ->
         LET r == WideRankInit(optimized_for, data_, size_, junk)
         IN  r.l1 = l1_ /\ r.l2 = l2_

(* C13: padding independence: two bit buffers of the same length n that    *)
(* agree on [0, n) and differ in the padding bits (here: the vector and    *)
(* the one with the padding filled with 0 or with 1, indexed over the same *)
(* unassigned storage) give the same rank0(i) and rank1(i) for i in [0, n] *)
(* and the same select0(k) and select1(k) for valid k, for every index     *)
(* family and OptimizedFor.                                                *)
C13_PaddingIndependence ==
  /\ last.op \in {"rank1", "rank0"}
       => \A pad \in {0, 1}, junk \in JunkValues :
             BuiltWith(junk)
               => RankOverFilled(IF last.op = "rank1" THEN 1 ELSE 0,
                                 last.index, pad, junk) = last.result
  /\ (last.op = "select" /\ ValidRank(last.bit, last.rank))
       => \A pad \in {0, 1}, junk \in JunkValues, read \in ReadJunkValues :
             BuiltWith(junk)
               => SelectOverFilled(last.bit, last.rank, pad, junk, read)
                    = last.result


---------------------------------------------------------------------------
(* Sequences of queries on an index.                                       *)

PureLengths == {L2_BIT_SIZE + 1, PopcntL1_BIT_SIZE + 1}

InitPure == InitVector(PureLengths)

\* the query made last is made once more (by the same or by another
\* reader); read is what a read outside the arrays returns this time
RepeatQuery ==
  /\ pc = "built"
  /\ queries = MaxQueries
  /\ queries' = queries + 1
  /\ last.op \in {"rank1", "rank0", "select"}
  /\ \E read \in ReadJunkValues :
        last' =
          CASE last.op = "rank1" ->
                 [last EXCEPT !.result = IndexRank1(last.index)]
            [] last.op = "rank0" ->
                 [last EXCEPT !.result = IndexRank0(last.index)]
            [] last.op = "select" ->
                 LET r == IndexSelect(last.bit, last.rank, read)
                 IN  [last EXCEPT !.result = r.pos, !.trace = r]
  /\ UNCHANGED <<bvVars, pc, cfgVars, idxVars>>

NextPure ==
  \/ \E o \in OptimizedFor, junk \in JunkValues : BuildRankSelect(o, junk)
  \/ \E o \in OptimizedFor, fw \in FindL2FlatWith, junk \in JunkValues :
        BuildFlatRankSelect(o, fw, junk)
  \/ \E o \in OptimizedFor, fw \in FindL2WideWith, junk \in JunkValues :
        BuildWideRankSelect(o, fw, junk)
  \/ QueryRank1
  \/ QueryRank0
  \/ QuerySelect(1)
  \/ QuerySelect(0)
  \/ RepeatQuery

SpecPure == InitPure /\ [][NextPure]_vars

---------------------------------------------------------------------------
(* BitVector::Iterator (bit_vector.hpp): a BitAccess, that is the pointer  *)
(* raw_data_ and a position, moved by ++ and compared by position and      *)
(* pointer.  The iterator in use and the number of ++ made on it are kept  *)
(* in last.                                                                *)

\* lengths that are and are not multiples of the word width
IterLengths == {0, 1, WordBits, (2 * WordBits) - 1, 2 * WordBits}

InitIter ==
  /\ bit_size_ \in IterLengths
  /\ size_ = WordCount(bit_size_)
  /\ data_ \in [0..(size_ - 1) -> Words]
  /\ NoIndex
  /\ last = [op |-> "construct"]

\* Iterator(data, position)
Iterator(data, position) == [data |-> data, position |-> position]

\* bv.begin() and bv.end()
begin == Iterator("raw_data_", 0)

endMutantStorageEnd == Iterator("raw_data_", size_ * WordBits)

end == Iterator("raw_data_", bit_size_)

\* operator== and operator!= of Iterator, through those of BitAccess
IteratorEq(a, b) == a.position = b.position /\ a.data = b.data
IteratorNeq(a, b) == a.position # b.position \/ a.data # b.data

\* int64_t(x) of a size_t
ToInt64(x) == IF x >= SizeMod \div 2 THEN x - SizeMod ELSE x

\* a - b: BitAccess::distance
distance(a, b) == ToInt64(USub(a.position, b.position))

\* ++it
IteratorIncrement(it) == [it EXCEPT !.position = UAdd(@, 1)]

IterOps == {"begin", "++", "*get", "*set"}

\* auto it = bv.begin()
IterBegin ==
  /\ pc = "bv"
  /\ last.op \notin IterOps
  /\ last' = [op |-> "begin", it |-> begin, steps |-> 0,
              distance |-> distance(end, begin)]
  /\ UNCHANGED <<bvVars, pc, cfgVars, idxVars, queries>>

\* the loop step "it != bv.end(); ++it"
IterNext ==
  /\ last.op \in IterOps
  /\ IteratorNeq(last.it, end)
  /\ LET it == IteratorIncrement(last.it)
     IN  last' = [op |-> "++", it |-> it, steps |-> last.steps + 1,
                  distance |-> distance(end, it)]
  /\ UNCHANGED <<bvVars, pc, cfgVars, idxVars, queries>>

\* bool(*it) inside the loop
IterRead ==
  /\ last.op \in IterOps
  /\ IteratorNeq(last.it, end)
  /\ last' = [op |-> "*get", it |-> last.it, steps |-> last.steps,
              distance |-> last.distance,
              result |-> Get(data_, last.it.position)]
  /\ UNCHANGED <<bvVars, pc, cfgVars, idxVars, queries>>

\* *it = value inside the loop
IterWrite(value) ==
  /\ last.op \in IterOps
  /\ IteratorNeq(last.it, end)
  /\ data_' = Set(data_, last.it.position, value)
  /\ last' = [op |-> "*set", it |-> last.it, steps |-> last.steps,
              distance |-> last.distance, value |-> value, before |-> data_]
  /\ UNCHANGED <<bit_size_, size_, pc, cfgVars, idxVars, queries>>

NextIter ==
  \/ IterBegin
  \/ IterNext
  \/ IterRead
  \/ \E value \in {0, 1} : IterWrite(value)

SpecIter == InitIter /\ [][NextIter]_vars

\* bit i of the word array d, by arithmetic on the word
WordArrayBit(d, i) == (d[i \div WordBits] \div (2^(i % WordBits))) % 2

(* C15: BitVector iteration: end() - begin() = size(); an iterator moved   *)
(* from begin() by ++ equals end() after exactly size() increments, also   *)
(* when size() is a multiple of the word width; the proxy obtained after i *)
(* increments reads the bit bv[i] and writes the bit bv[i] and no other.   *)
C15_Iteration ==
  last.op \in IterOps =>
    /\ distance(end, begin) = bit_size_
    /\ last.distance = bit_size_ - last.steps
    /\ last.steps <= bit_size_
    /\ IteratorEq(last.it, end) <=> last.steps = bit_size_
    /\ last.op = "*get" => last.result = WordArrayBit(data_, last.steps)
    /\ last.op = "*set" =>
         \A j \in 0..((size_ * WordBits) - 1) :
            WordArrayBit(data_, j) =
              IF j = last.steps THEN last.value
              ELSE WordArrayBit(last.before, j)

\* the iterator has reached end() on a vector whose length is a positive
\* multiple of the word width, after a write through the proxy
C15_Witness ==
  /\ last.op = "++"
  /\ bit_size_ = 2 * WordBits
  /\ IteratorEq(last.it, end)
  /\ last.steps = bit_size_
  /\ data_[1] \notin {0, WordMax}


---------------------------------------------------------------------------
(* space_usage() of the rank and the select structures.  The byte sizes    *)
(* are those of an LP64 build: a pointer and a size_t take 8 bytes, a      *)
(* tlx::SimpleVector is a size and a pointer, a std::vector three          *)
(* pointers, and every class holds a vtable pointer.                       *)

SizeofU64 == 8
SizeofU32 == 4
SizeofU16 == 2
SizeofL12Type == 16
SizeofBigL12Type == 16
SizeofSimpleVector == 16
SizeofStdVector == 24

\* sizeof(*this): vtable pointer, data_size_, data_, then the other members
SizeofRank == (3 * SizeofU64) + SizeofU64 + (2 * SizeofSimpleVector)
SizeofRankSelect ==
  SizeofRank + (2 * SizeofSimpleVector) + (2 * SizeofStdVector)
SizeofFlatRank == (3 * SizeofU64) + SizeofSimpleVector + SizeofU64
SizeofFlatRankSelect == SizeofFlatRank + (2 * SizeofStdVector)
SizeofWideRank == (3 * SizeofU64) + (2 * SizeofSimpleVector)
SizeofWideRankSelect == SizeofWideRank + (2 * SizeofStdVector)

\* size() of an array
ArraySize(a) == Cardinality(DOMAIN a)

\* Rank::space_usage, FlatRank::space_usage, WideRank::space_usage
RankSpaceUsage(l0, l12) ==
  (ArraySize(l0) * SizeofU64) + (ArraySize(l12) * SizeofL12Type) + SizeofRank

FlatRankSpaceUsage(l12) == (ArraySize(l12) * SizeofBigL12Type) + SizeofFlatRank

WideRankSpaceUsage(l1, l2) ==
  (ArraySize(l1) * SizeofU64) + (ArraySize(l2) * SizeofU16) + SizeofWideRank

\* RankSelect::space_usage, FlatRankSelect::space_usage,
\* WideRankSelect::space_usage
RankSelectSpaceUsage(samples0, samples1, samples0_pos, samples1_pos) ==
  (ArraySize(samples0) * SizeofU32) + (ArraySize(samples1) * SizeofU32)
    + (ArraySize(samples0_pos) * SizeofU64)
    + (ArraySize(samples1_pos) * SizeofU64) + SizeofRankSelect

FlatRankSelectSpaceUsage(samples0, samples1) ==
  (ArraySize(samples0) * SizeofU32) + (ArraySize(samples1) * SizeofU32)
    + SizeofFlatRankSelect

WideRankSelectSpaceUsage(samples0, samples1) ==
  (ArraySize(samples0) * SizeofU32) + (ArraySize(samples1) * SizeofU32)
    + SizeofWideRankSelect

\* lengths of one word and of several L1-blocks of every family
SpaceLengths == {1, (4 * FlatL1_BIT_SIZE) + 1}

InitSpace == InitVector(SpaceLengths)

\* rs.space_usage() of the select structure that was built
SpaceUsage ==
  /\ pc = "built"
  /\ queries < MaxQueries
  /\ queries' = queries + 1
  /\ last' =
       [op |-> "space_usage",
        result |->
          CASE kind = "classic" ->
                 RankSelectSpaceUsage(samples0_, samples1_, samples0_pos_,
                                      samples1_pos_)
            [] kind = "flat" -> FlatRankSelectSpaceUsage(samples0_, samples1_)
            [] kind = "wide" -> WideRankSelectSpaceUsage(samples0_, samples1_)]
  /\ UNCHANGED <<bvVars, pc, cfgVars, idxVars>>

NextSpace ==
  \/ \E o \in OptimizedFor, junk \in JunkValues : BuildRankSelect(o, junk)
  \/ \E o \in OptimizedFor, fw \in FindL2FlatWith, junk \in JunkValues :
        BuildFlatRankSelect(o, fw, junk)
  \/ \E o \in OptimizedFor, fw \in FindL2WideWith, junk \in JunkValues :
        BuildWideRankSelect(o, fw, junk)
  \/ SpaceUsage

SpecSpace == InitSpace /\ [][NextSpace]_vars

\* space_usage() of the rank-only structure over the same vector, which
\* holds level arrays of the same sizes
RankOnlySpaceUsage ==
  CASE kind = "classic" -> RankSpaceUsage(l0_, l12_)
    [] kind = "flat"    -> FlatRankSpaceUsage(l12_)
    [] kind = "wide"    -> WideRankSpaceUsage(l1_, l2_)

(* C16: space_usage() of RankSelect, FlatRankSelect and WideRankSelect is  *)
(* the number of bytes used: it includes the bytes of the rank level       *)
(* arrays they own in addition to the sample arrays, so it is at least the *)
(* space_usage() of the rank-only structure over the same bit vector.      *)
C16_SpaceUsage ==
  last.op = "space_usage" => last.result >= RankOnlySpaceUsage


---------------------------------------------------------------------------
(* The level arrays after construction.                                    *)

\* the polarity the level arrays count: 1 for ONE_QUERIES and DONT_CARE
StoredBit == IF optimize_one_or_dont_care(optimized_for) THEN 1 ELSE 0

\* the number of bits of the stored polarity in the words [from, to) of the
\* vector, padding bits included
StoredInWords(from, to) ==
  Cardinality({j \in (from * WordBits)..((to * WordBits) - 1) :
                 WordArrayBit(data_, j) = StoredBit})

(* C17: classic Rank construction: for every word count, after init() the  *)
(* L0 array holds for every L0-block that contains data the cumulative     *)
(* count of the stored polarity before that block, followed by a final     *)
(* sentinel entry equal to UINT64_MAX, and every L0 entry that the L0 scan *)
(* of select reads was assigned, whatever the storage held before.         *)
C17_L0Sentinel ==
  (kind = "classic" /\ pc = "built") =>
    LET last_block == size_ \div PopcntL0_WORD_SIZE
    IN  /\ \A k \in 0..last_block :
              l0_[k] = StoredInWords(0, k * PopcntL0_WORD_SIZE)
        /\ l0_[last_block + 1] = UINT64_MAX
        /\ \A junk \in JunkValues :
              RankInit(optimized_for, data_, size_, junk).l0 = l0_


\* the indexes of the records of l12_ that FlatRankSelect::init reads:
\* "for (l12_pos = 0; l12_pos < l12_.size(); ++l12_pos) ... l12_[l12_pos]"
FlatRankSelectInitRead(l12) == 0..(ArraySize(l12) - 1)

(* C18: FlatRank: for every word count word_len >= 1, after construction   *)
(* l12_end is ceil(word_len / L1_WORDS), every L12 record with an index    *)
(* below l12_end has been written, and no record with an index of l12_end  *)
(* or more is read by rank, by select or by the construction of the select *)
(* samples, also when word_len is a multiple of L1_WORDS and the array     *)
(* holds one record more than l12_end.                                     *)
C18_FlatL12End ==
  (kind = "flat" /\ pc = "built") =>
    /\ l12_end_ = (size_ + FlatL1_WORD_SIZE - 1) \div FlatL1_WORD_SIZE
    /\ \A junk \in JunkValues, i \in 0..(l12_end_ - 1) :
          FlatRankInit(optimized_for, data_, size_, junk).l12[i] = l12_[i]
    /\ \A i \in FlatRankSelectInitRead(l12_) : i < l12_end_
    /\ last.op = "select" =>
         /\ last.index \div FlatL1_BIT_SIZE < l12_end_
         /\ last.trace.l1_pos < l12_end_


---------------------------------------------------------------------------
(* Rank, FlatRank and WideRank right after construction.                   *)

LevelLengths == RankLengths \cup FlatWideLengths

InitLevels == InitVector(LevelLengths)

NextLevels ==
  \/ \E o \in OptimizedFor, junk \in JunkValues : BuildRank(o, junk)
  \/ \E o \in OptimizedFor, junk \in JunkValues : BuildFlatRank(o, junk)
  \/ \E o \in OptimizedFor, junk \in JunkValues : BuildWideRank(o, junk)

SpecLevels == InitLevels /\ [][NextLevels]_vars

\* L12Type::operator[]
L12Index(r, index) == (r.l2_values \div (2^(10 * index))) % (L2Mask10 + 1)

\* the words of the vector from word from up to word to or the end of the
\* data, whichever comes first
StoredUpTo(from, to) == StoredInWords(from, Min(to, size_))

\* the L1-blocks and L2-blocks that start inside the data
ClassicL1Blocks ==
  {i \in 0..(ArraySize(l12_) - 1) : i * PopcntL1_WORD_SIZE < size_}
FlatL1Blocks ==
  {i \in 0..(ArraySize(l12_) - 1) : i * FlatL1_WORD_SIZE < size_}
WideL1Blocks ==
  {i \in 0..(ArraySize(l1_) - 1) : i * WideL1_WORD_SIZE < size_}
WideL2Blocks ==
  {j \in 0..(ArraySize(l2_) - 1) : j * L2_WORD_SIZE < size_}

(* C19: level-array invariants after construction, for the stored polarity *)
(* and every block that starts inside the data: an L2 entry is the count   *)
(* in the L2-blocks strictly before it within the same L1-block (flat      *)
(* accessor [j] with [0] = 0; wide l2_[j], which restarts at 0 at every    *)
(* L1 boundary; classic: the sum of the stored L2 fields before position   *)
(* j); an L1 entry is the count strictly before its L1-block within the    *)
(* same L0-block (classic) or the whole vector (flat, wide); a classic L0  *)
(* entry is the count strictly before its L0-block.                        *)
C19_LevelArrays ==
  pc = "built" =>
    CASE kind = "classic" ->
           /\ \A k \in 0..(ArraySize(l0_) - 1) :
                 k * PopcntL0_WORD_SIZE < size_
                   => l0_[k] = StoredInWords(0, k * PopcntL0_WORD_SIZE)
           /\ \A i \in ClassicL1Blocks :
                 LET w == i * PopcntL1_WORD_SIZE
                 IN  /\ l12_[i].l1 =
                          StoredInWords((i \div L0_L1_BLOCKS)
                                          * PopcntL0_WORD_SIZE, w)
                     /\ \A j \in 0..3 :
                           w + (j * L2_WORD_SIZE) < size_
                             => RankL2Sum(l12_[i].l2_values, j)
                                  = StoredInWords(w, w + (j * L2_WORD_SIZE))
      [] kind = "flat" ->
           \A i \in FlatL1Blocks :
              LET w == i * FlatL1_WORD_SIZE
              IN  /\ BigL12L1(l12_[i]) = StoredInWords(0, w)
                  /\ \A j \in 0..7 :
                        w + (j * L2_WORD_SIZE) < size_
                          => BigL12Index(l12_[i], j)
                               = StoredInWords(w, w + (j * L2_WORD_SIZE))
      [] kind = "wide" ->
           /\ \A i \in WideL1Blocks :
                 l1_[i] = StoredInWords(0, i * WideL1_WORD_SIZE)
           /\ \A j \in WideL2Blocks :
                 l2_[j] = StoredInWords((j \div WideL2PerL1) * WideL1_WORD_SIZE,
                                        j * L2_WORD_SIZE)

\* a classic index over more than one L0-block: the second L0 entry is
\* positive, the L1 entry that starts the second L0-block is 0 and the one
\* after it is positive again
C19_Witness ==
  /\ pc = "built"
  /\ kind = "classic"
  /\ optimized_for = "ZERO_QUERIES"
  /\ (L0_L1_BLOCKS + 1) \in ClassicL1Blocks
  /\ l0_[1] > 0
  /\ l12_[L0_L1_BLOCKS].l1 = 0
  /\ l12_[L0_L1_BLOCKS + 1].l1 > 0
  /\ RankL2Sum(l12_[L0_L1_BLOCKS + 1].l2_values, 1) > 0


\* the source's geometry, for the field widths: bits per L2-block, L2-blocks
\* per wide L1-block, and the largest uint16_t
SourceL2_BIT_SIZE == 512
SourceWideL2PerL1 == 128
UINT16_MAX == 65535

---------------------------------------------------------------------------
(* The select samples of RankSelect and FlatRankSelect.                    *)

\* the position of the rank-th bit of the polarity bit, for a valid rank
KthPosition(bit, rank) ==
  CHOOSE pos \in 0..(bit_size_ - 1) : IsKthBit(bit, rank, pos)

\* the index of the L1-block of the index built that holds position pos
L1BlockOf(pos) ==
  IF kind = "classic" THEN pos \div PopcntL1_BIT_SIZE
  ELSE pos \div FlatL1_BIT_SIZE

(* C21: samples are safe lower bounds (classic and flat select): for every *)
(* valid k, whenever the sample entry selected for k exists, the starting  *)
(* L1 index derived from it (the sample value plus, where the code adds    *)
(* it, ((k' - 1) mod SELECT_SAMPLE_RATE) / L1_BITS) is at most the index   *)
(* of the L1-block that holds the k-th bit and is a valid L1 index, so the *)
(* forward-only L1 scan never starts past the target.                      *)
C21_SampleLowerBound ==
  (/\ kind \in {"classic", "flat"}
   /\ last.op = "select"
   /\ ValidRank(last.bit, last.rank)
   /\ last.trace.sample_pos < last.trace.samples_len)
    => /\ last.trace.l1_guess <= L1BlockOf(KthPosition(last.bit, last.rank))
       /\ last.trace.l1_guess < ArraySize(l12_)


(* C22: sample lookups stay in bounds: in RankSelect and FlatRankSelect,   *)
(* for every valid k, the index used to read samples0_ / samples1_ is      *)
(* smaller than the length of the sample array, also when the              *)
(* (m * SELECT_SAMPLE_RATE + 1)-th bit of the polarity lies in the last    *)
(* L1-block of the vector or of an L0-block.                               *)
C22_SampleInBounds ==
  (/\ kind \in {"classic", "flat"}
   /\ last.op = "select"
   /\ ValidRank(last.bit, last.rank))
    => last.trace.sample_pos < last.trace.samples_len


---------------------------------------------------------------------------
(* The entries of l1_ and l2_ that WideRank::init assigns.                 *)

\* the L2 indices WideRankSelect::init reads, "for (l2_pos = 0; l2_pos <
\* l2_end; ++l2_pos)" with l2_end = l2_.size(); it reads l1_[l2_pos / 128]
\* with each of them
WideRankSelectInitRead(l2) == 0..(ArraySize(l2) - 1)

(* C23: WideRank's construction assigns every element of l1_ and l2_ that  *)
(* the sample construction of WideRankSelect or a select query with a      *)
(* valid k can read, for every word count, multiples of the L2 and of the  *)
(* L1 word size included: the elements the sample construction reads, the  *)
(* samples and the result of a valid select are the same whatever the      *)
(* storage held before the construction.                                   *)
C23_WideAssigned ==
  (kind = "wide" /\ pc = "built")
    => \A junk \in JunkValues :
         LET r == WideRankInit(optimized_for, data_, size_, junk)
             t == WideRankSelectInit(optimized_for, r.l1, r.l2)
         IN  /\ \A i \in WideRankSelectInitRead(l2_) :
                  /\ r.l2[i] = l2_[i]
                  /\ r.l1[i \div WideL2PerL1] = l1_[i \div WideL2PerL1]
             /\ t.samples0 = samples0_
             /\ t.samples1 = samples1_
             /\ (last.op = "select" /\ ValidRank(last.bit, last.rank))
                  => \E read \in ReadJunkValues :
                       WideRankSelectSelect(last.bit, optimized_for, find_with,
                                            data_, r.l1, r.l2, last.rank,
                                            read).pos = last.result


(* C24: FlatRankSelect queries on valid inputs do not fail: for every bit  *)
(* vector, every OptimizedFor, LINEAR_SEARCH or BINARY_SEARCH and every    *)
(* valid k, the loops of select0 / select1 come to an end, the L1 index    *)
(* stays below l12_end and the final word scan reads only data words with  *)
(* an index below the word count.                                          *)
C24_FlatSelectInBounds ==
  (/\ kind = "flat"
   /\ find_with \in {"LINEAR_SEARCH", "BINARY_SEARCH"}
   /\ last.op = "select"
   /\ ValidRank(last.bit, last.rank))
    => /\ last.trace.l1_pos < l12_end_
       /\ last.trace.l2_pos < 8
       /\ last.result # OutOfBounds
       /\ last.result \div WordBits < size_
       /\ last.trace.words <= size_

\* a valid select with either search whose bit lies in the last word of the
\* data, behind the first L1-block
C24_Witness ==
  /\ kind = "flat"
  /\ find_with = "BINARY_SEARCH"
  /\ last.op = "select"
  /\ ValidRank(last.bit, last.rank)
  /\ last.trace.l1_pos > 0
  /\ last.trace.l1_pos = l12_end_ - 1
  /\ last.result \div WordBits = size_ - 1


(* C25: the word scan of the classic select is bounded by one L2-block:    *)
(* after the L0, L1 and L2 scans of select1 (and select0) the final        *)
(* popcount scan examines at most L2_WORD_SIZE words in total, the word    *)
(* holding the k-th bit included; also when that bit lies in the last      *)
(* L1-block of the vector or of an L0-block, and for vectors of more than  *)
(* one L0-block under the derived polarity.                                *)
C25_WordScanBounded ==
  (kind = "classic" /\ last.op = "select" /\ ValidRank(last.bit, last.rank))
    => last.trace.words <= L2_WORD_SIZE


(* C26: the L2 location of the flat select: for every search strategy,     *)
(* every OptimizedFor, both polarities and every valid k, the L2 index     *)
(* chosen inside the selected L1-block is the L2-block that holds the k-th *)
(* bit, so that the popcount scan that follows examines at most            *)
(* L2_WORD_SIZE words; the derived polarity included.                      *)
C26_FlatL2Location ==
  (kind = "flat" /\ last.op = "select" /\ ValidRank(last.bit, last.rank))
    => /\ (last.trace.l1_pos * 8) + last.trace.l2_pos
            = KthPosition(last.bit, last.rank) \div L2_BIT_SIZE
       /\ last.trace.words <= L2_WORD_SIZE



---------------------------------------------------------------------------
(* The contents of the sample arrays of RankSelect and FlatRankSelect.     *)

SampleLengths ==
  {1, PopcntL1_BIT_SIZE, (2 * PopcntL1_BIT_SIZE) - 2,
   (2 * FlatL1_BIT_SIZE) - 2, SELECT_SAMPLE_RATE + WordBits + 1,
   (2 * SELECT_SAMPLE_RATE) + FlatL1_BIT_SIZE + 2,
   PopcntL0_BIT_SIZE - 1, PopcntL0_BIT_SIZE + PopcntL1_BIT_SIZE + 1,
   (2 * PopcntL0_BIT_SIZE) + PopcntL1_BIT_SIZE + L2_BIT_SIZE + 2}

InitSamples == InitVector(SampleLengths)

NextSamples ==
  \/ \E o \in OptimizedFor, junk \in JunkValues : BuildRankSelect(o, junk)
  \/ \E o \in OptimizedFor, fw \in FindL2FlatWith, junk \in JunkValues :
        BuildFlatRankSelect(o, fw, junk)

SpecSamples == InitSamples /\ [][NextSamples]_vars

SetMax(S) == CHOOSE x \in S : \A y \in S : y <= x

\* the number of bits of the polarity bit in the words [from, to) of the
\* vector
BitsInWords(bit, from, to) ==
  Cardinality({j \in (from * WordBits)..((to * WordBits) - 1) :
                 WordArrayBit(data_, j) = bit})

\* the running count of the polarity bit before L1-block i: within its
\* L0-block for the classic index, within the vector for the flat one
RunningCount(bit, i) ==
  IF kind = "classic"
    THEN BitsInWords(bit, (i \div L0_L1_BLOCKS) * PopcntL0_WORD_SIZE,
                     i * PopcntL1_WORD_SIZE)
    ELSE BitsInWords(bit, 0, i * FlatL1_WORD_SIZE)

\* the largest of the L1-blocks blocks whose running count is at most limit
LargestBlock(bit, blocks, limit) ==
  SetMax({i \in blocks : RunningCount(bit, i) <= limit})

\* the L0-blocks of the classic index that hold data, and the L1-blocks of
\* L0-block b
ClassicL0Blocks == {b \in 0..(ArraySize(l0_) - 1) : b * PopcntL0_WORD_SIZE < size_}
ClassicL1BlocksOf(b) == {i \in ClassicL1Blocks : i \div L0_L1_BLOCKS = b}

NonDecreasing(samples) ==
  \A e \in 1..(Len(samples) - 1) : samples[e] <= samples[e + 1]

\* the entries of the classic sample array that belong to L0-block b
ClassicEntriesOf(b, samples, pos) ==
  pos[b]..((IF b + 1 \in ClassicL0Blocks THEN pos[b + 1] ELSE Len(samples)) - 1)

\* entry k of each L0-block is the largest L1-block of that L0-block with a
\* running count of at most 1 + k * SELECT_SAMPLE_RATE - slack
ClassicSampleContents(bit, samples, pos, slack) ==
  \A b \in ClassicL0Blocks :
    \A e \in ClassicEntriesOf(b, samples, pos) :
      samples[e + 1] =
        LargestBlock(bit, ClassicL1BlocksOf(b),
                     1 + ((e - pos[b]) * SELECT_SAMPLE_RATE) - slack)

\* the entries first..Len(samples) are the largest L1-block with a running
\* count of at most 1 + k * SELECT_SAMPLE_RATE - slack
FlatSampleContents(bit, samples, last_entry, slack) ==
  \A e \in 1..last_entry :
    samples[e] = LargestBlock(bit, FlatL1Blocks,
                              1 + ((e - 1) * SELECT_SAMPLE_RATE) - slack)

\* no bit of the polarity bit lies before the last L1-block, so that
\* RankSelect::init pushes nothing and adds the entry 0
ClassicFilled(bit, samples) ==
  /\ samples = <<0>>
  /\ \A i \in ClassicL1Blocks : RunningCount(bit, i) = 0

\* the entry FlatRankSelect::init adds behind the ones of its loop
FlatFilled(samples) ==
  /\ Len(samples) >= 1
  /\ samples[Len(samples)] = IF Len(samples) = 1 THEN 0
                             ELSE samples[Len(samples) - 1]

(* C27 as stated: sample contents (classic and flat): for each polarity    *)
(* the sample array is non-decreasing and its entry k is the largest       *)
(* L1-block index whose running count of that polarity (the bits strictly  *)
(* before the block; within the current L0-block for the classic index)    *)
(* is at most 1 + k * SELECT_SAMPLE_RATE.                                  *)
C27_AsStated ==
  /\ kind = "classic"
       => /\ NonDecreasing(samples0_) /\ NonDecreasing(samples1_)
          /\ ClassicSampleContents(0, samples0_, samples0_pos_, 0)
          /\ ClassicSampleContents(1, samples1_, samples1_pos_, 0)
  /\ kind = "flat"
       => /\ NonDecreasing(samples0_) /\ NonDecreasing(samples1_)
          /\ FlatSampleContents(0, samples0_, Len(samples0_), 0)
          /\ FlatSampleContents(1, samples1_, Len(samples1_), 0)

(* C27, amended: for each polarity the sample array is non-decreasing and  *)
(* every entry k that the loop of init pushed is the largest L1-block      *)
(* index whose running count of that polarity (within the current          *)
(* L0-block for the classic index) is at most k * SELECT_SAMPLE_RATE, that *)
(* is, below 1 + k * SELECT_SAMPLE_RATE; the entry added behind the loop   *)
(* is 0 when the loop pushed nothing (classic and flat) and a copy of the  *)
(* last pushed entry otherwise (flat).                                     *)
C27_SampleContents ==
  /\ kind = "classic"
       => /\ NonDecreasing(samples0_) /\ NonDecreasing(samples1_)
          /\ \/ ClassicFilled(0, samples0_)
             \/ ClassicSampleContents(0, samples0_, samples0_pos_, 1)
          /\ \/ ClassicFilled(1, samples1_)
             \/ ClassicSampleContents(1, samples1_, samples1_pos_, 1)
  /\ kind = "flat"
       => /\ NonDecreasing(samples0_) /\ NonDecreasing(samples1_)
          /\ FlatFilled(samples0_) /\ FlatFilled(samples1_)
          /\ FlatSampleContents(0, samples0_, Len(samples0_) - 1, 1)
          /\ FlatSampleContents(1, samples1_, Len(samples1_) - 1, 1)

\* a classic index whose loop pushed a sample of the 1-bits at a running
\* count of exactly 1, the first sample value
C27_Witness ==
  /\ kind = "classic"
  /\ ~ClassicFilled(1, samples1_)
  /\ Len(samples1_) >= 1
  /\ \E i \in ClassicL1Blocks : RunningCount(1, i) = 1

---------------------------------------------------------------------------
(* The sample arrays of WideRankSelect.                                    *)

\* samples is a non-decreasing array of valid L2 indices, entry k is not
\* behind the L2-block of the (k * SELECT_SAMPLE_RATE + 1)-th bit of the
\* polarity bit, and there are at most ceil(count / SELECT_SAMPLE_RATE) + 1
\* entries
WideSampleContents(bit, samples) ==
  /\ NonDecreasing(samples)
  /\ \A e \in 1..Len(samples) :
       /\ samples[e] \in WideL2Blocks
       /\ ValidRank(bit, ((e - 1) * WideSELECT_SAMPLE_RATE) + 1)
            => samples[e] <=
                 KthPosition(bit, ((e - 1) * WideSELECT_SAMPLE_RATE) + 1)
                   \div L2_BIT_SIZE
  /\ Len(samples) <=
       ((Count(bit, bit_size_) + WideSELECT_SAMPLE_RATE - 1)
          \div WideSELECT_SAMPLE_RATE) + 1

(* C28: the samples of WideRankSelect: after construction samples0_ and    *)
(* samples1_ are non-decreasing arrays of valid L2-block indices with one  *)
(* entry per SELECT_SAMPLE_RATE zeros / ones: entry k is an L2 index not   *)
(* greater than the L2-block that holds the (k * SELECT_SAMPLE_RATE +      *)
(* 1)-th bit of the polarity, each array has at most ceil(count /          *)
(* SELECT_SAMPLE_RATE) + 1 entries, and select1 takes its first L2 guess   *)
(* from samples1_.                                                         *)
C28_WideSamples ==
  (kind = "wide" /\ pc = "built")
    => /\ WideSampleContents(0, samples0_)
       /\ WideSampleContents(1, samples1_)
       /\ (last.op = "select" /\ last.bit = 1 /\ ValidRank(1, last.rank))
            => /\ (last.rank - 1) \div WideSELECT_SAMPLE_RATE < Len(samples1_)
               /\ last.trace.guess =
                    samples1_[((last.rank - 1) \div WideSELECT_SAMPLE_RATE) + 1]


---------------------------------------------------------------------------
(* select1_reverse (src/bit_vector/support/select.hpp) on 64-bit words.    *)
(* A uint64_t is held as four 16-bit limbs, the least significant first,   *)
(* so that the arithmetic keeps its width; a uint32_t is such a number     *)
(* with its two upper limbs cleared.                                       *)

LimbMod == 2^16

\* the value n < 2^16 as an unsigned number
Limbs(n) == <<n, 0, 0, 0>>

\* a 64-bit constant whose four limbs are all m: ~0UL / 3 is 0x5555...,
\* ~0UL / 5 is 0x3333..., ~0UL / 0x11 is 0x0f0f..., ~0UL / 0x101 is 0x00ff...
Repeat16(m) == <<m, m, m, m>>

\* x & y
LimbAnd(x, y) ==
  <<BitAnd(x[1], y[1]), BitAnd(x[2], y[2]), BitAnd(x[3], y[3]),
    BitAnd(x[4], y[4])>>

\* x >> k for 0 <= k < 64
LimbShr(x, k) ==
  LET q == k \div 16
      r == k % 16
      At(i) == IF i <= 4 THEN x[i] ELSE 0
      L(i) == ((At(i + q) \div (2^r)) + ((At(i + q + 1) % (2^r)) * (2^(16 - r))))
                % LimbMod
  IN  <<L(1), L(2), L(3), L(4)>>

\* x + y modulo 2^64
LimbAdd(x, y) ==
  LET s1 == x[1] + y[1]
      s2 == x[2] + y[2] + (s1 \div LimbMod)
      s3 == x[3] + y[3] + (s2 \div LimbMod)
      s4 == x[4] + y[4] + (s3 \div LimbMod)
  IN  <<s1 % LimbMod, s2 % LimbMod, s3 % LimbMod, s4 % LimbMod>>

\* x - y modulo 2^64
LimbSub(x, y) ==
  LET d1 == x[1] - y[1]
      d2 == x[2] - y[2] - (IF d1 < 0 THEN 1 ELSE 0)
      d3 == x[3] - y[3] - (IF d2 < 0 THEN 1 ELSE 0)
      d4 == x[4] - y[4] - (IF d3 < 0 THEN 1 ELSE 0)
  IN  <<(d1 + LimbMod) % LimbMod, (d2 + LimbMod) % LimbMod,
        (d3 + LimbMod) % LimbMod, (d4 + LimbMod) % LimbMod>>

\* the conversion of a uint64_t to uint32_t
ToU32(x) == <<x[1], x[2], 0, 0>>

\* the one value of a set of one value; "Pick({e(v) : v \in {x}})" is e(x)
\* with x computed once
Pick(S) == CHOOSE v \in S : TRUE

\* "((t - rank) & 256) >> shift" with diff = t - rank: 256 >> shift when
\* rank > t, 0 otherwise
SelectDecrementMutantHalf(diff, shift) == BitAnd(diff[1], 256) \div (2^(shift + 1))

SelectDecrement(diff, shift) == BitAnd(diff[1], 256) \div (2^shift)

\* "s -= ((t - rank) & 256) >> shift; rank -= (t & ((t - rank) >> 8));" on
\* the uint32_t values s, rank (st = [s, rank]) and t
SelectStep(st, t, shift) ==
  Pick({[s |-> st.s - SelectDecrement(diff, shift),
         rank |-> ToU32(LimbSub(st.rank, LimbAnd(t, LimbShr(diff, 8))))] :
        diff \in {ToU32(LimbSub(t, st.rank))}})

\* "t = (x >> (s - width)) & mask" with a uint64_t x, assigned to the
\* uint32_t t, followed by the step on s and rank
SelectHalve(st, x, width, mask, shift) ==
  Pick({SelectStep(st, t, shift) :
        t \in {ToU32(LimbAnd(LimbShr(x, st.s - width), Limbs(mask)))}})

\* the five halvings behind the first one, on d (16 bits, 0xff), c (8,
\* 0xf), b (4, 0x7), a (2, 0x3) and data (1, 0x1); v = <<d, c, b, a, data>>
SelectMasks == <<255, 15, 7, 3, 1>>

RECURSIVE SelectHalvings(_, _, _)
SelectHalvings(v, k, st) ==
  IF k > 5 THEN st
  ELSE Pick({SelectHalvings(v, k + 1, n) :
             n \in {SelectHalve(st, v[k], 2^(5 - k), SelectMasks[k], k + 3)}})

\* the parallel bit count with all its intermediate steps: <<d, c, b, a, data>>
SelectCountsA(data) == LimbSub(data, LimbAnd(LimbShr(data, 1), Repeat16(21845)))
SelectCountsB(a) ==
  LimbAdd(LimbAnd(a, Repeat16(13107)), LimbAnd(LimbShr(a, 2), Repeat16(13107)))
SelectCountsC(b) == LimbAnd(LimbAdd(b, LimbShr(b, 4)), Repeat16(3855))
SelectCountsD(c) == LimbAnd(LimbAdd(c, LimbShr(c, 8)), Repeat16(255))
SelectCounts(data) ==
  Pick({Pick({Pick({Pick({<<d, c, b, a, data>> :
                          d \in {SelectCountsD(c)}}) :
                    c \in {SelectCountsC(b)}}) :
              b \in {SelectCountsB(a)}}) :
        a \in {SelectCountsA(data)}})

\* select1_reverse(data, rank), the result as a number: "t = (d >> 32) +
\* (d >> 48)", the step on s = 64 and rank, the five halvings, "return s - 1"
select1_reverse(data, rank) ==
  Pick({Pick({SelectHalvings(v, 1, SelectStep([s |-> 64, rank |-> Limbs(rank)],
                                              t, 3)).s - 1 :
              t \in {ToU32(LimbAdd(LimbShr(v[1], 32), LimbShr(v[1], 48)))}}) :
        v \in {SelectCounts(data)}})

\* the words select1_reverse is applied to: every combination of six
\* limb values, every word with one set bit and every word with one clear bit
LimbValues == {0, 1, 32768, 65535, 21845, 255}
OneBit(p, i) == IF i = (p \div 16) + 1 THEN 2^(p % 16) ELSE 0
OneBitWords ==
  {<<OneBit(p, 1), OneBit(p, 2), OneBit(p, 3), OneBit(p, 4)>> : p \in 0..63}
OneGapWords ==
  {<<(LimbMod - 1) - w[1], (LimbMod - 1) - w[2], (LimbMod - 1) - w[3],
     (LimbMod - 1) - w[4]>> : w \in OneBitWords}
SelectWords ==
  (LimbValues \X LimbValues \X LimbValues \X LimbValues)
    \cup OneBitWords \cup OneGapWords

\* bit p of the 64-bit word w and the number of its set bits in [from, to]
LimbBit(w, p) == (w[(p \div 16) + 1] \div (2^(p % 16))) % 2
LimbOnes(w, from, to) == Cardinality({p \in from..to : LimbBit(w, p) = 1})

InitSelectWord ==
  /\ bit_size_ = 0
  /\ size_ = WordCount(0)
  /\ data_ = [w \in 0..(size_ - 1) |-> 0]
  /\ NoIndex
  /\ \E w \in SelectWords : last = [op |-> "word", word |-> w]

\* select1_reverse(word, rank) for a rank in [1, popcount(word)], and for the
\* first rank behind it
Select1Reverse ==
  /\ queries < MaxQueries
  /\ queries' = queries + 1
  /\ \E rank \in 1..Min(LimbOnes(last.word, 0, 63) + 1, 64) :
        last' = [op |-> "select1_reverse", word |-> last.word, rank |-> rank,
                 result |-> select1_reverse(last.word, rank)]
  /\ UNCHANGED <<bvVars, pc, cfgVars, idxVars>>

NextSelectWord == Select1Reverse

SpecSelectWord == InitSelectWord /\ [][NextSelectWord]_vars

(* C29: in-word select: for every 64-bit word w and every r with 1 <= r <= *)
(* popcount(w), select1_reverse(w, r) is a value in [0, 63], the offset    *)
(* (0 = least significant bit) of the r-th set bit counted from the most   *)
(* significant end; hence select1_reverse(w, popcount(w) - k) is the       *)
(* offset of the k-th (counted from 0) set bit from the least significant  *)
(* end for every k < popcount(w); a single set bit, bit 0 set, bit 63 set  *)
(* and all bits set included.                                              *)
C29_SelectReverse ==
  (last.op = "select1_reverse" /\ last.rank <= LimbOnes(last.word, 0, 63))
    => /\ last.result \in 0..63
       /\ LimbBit(last.word, last.result) = 1
       /\ LimbOnes(last.word, last.result, 63) = last.rank
       /\ LimbOnes(last.word, 0, last.result - 1)
            = LimbOnes(last.word, 0, 63) - last.rank

\* the last set bit of the word with all bits set is selected
C29_Witness ==
  /\ last.op = "select1_reverse"
  /\ LimbOnes(last.word, 0, 63) = 64
  /\ last.rank = 64
  /\ last.result = 0


---------------------------------------------------------------------------
(* L12Type and BigL12Type as packed records (l12_type.hpp).  The L1 value  *)
(* of a BigL12Type is a uint64_t, held here as four 16-bit limbs so that   *)
(* values up to 2^40 and the 44-bit mask keep their width.                 *)

\* the i-th 4-bit digit of "0xFFFFFFFFFFF & _l1" (i < 11)
BigL1NibbleOfLimbs(l1, i) == (l1[(i \div 4) + 1] \div (16^(i % 4))) % 16

\* BigL12Type::BigL12Type(_l1, _l2) with _l1 at its full width
BigL12TypeOfLimbs(l1, l2e) ==
  LET N(i) == IF i < 11 THEN BigL1NibbleOfLimbs(l1, i) ELSE BigNibble(0, l2e, i)
  IN  [b \in 0..15 |-> N(2 * b) + (16 * N((2 * b) + 1))]

\* BigL12Type::l1() at its full width: "uint64_t{0xFFFFFFFFFFF} & data"
BigL12L1OfLimbs(data) ==
  <<data[0] + (256 * data[1]), data[2] + (256 * data[3]),
    data[4] + (256 * (data[5] % 16)), 0>>

\* the values the records are built from
L12L1Values == {0, 1, 2^10, U32Mod - 2, U32Mod - 1}
L12L2Values == {0, 1, 2^9, L2Mask10 - 1, L2Mask10}
BigL1Values ==
  {<<0, 0, 0, 0>>, <<1, 0, 0, 0>>, <<0, 0, 1, 0>>, <<0, 32768, 0, 0>>,
   <<21845, 43690, 85, 0>>, <<LimbMod - 1, LimbMod - 1, 255, 0>>}
BigL2Values == {0, 1365, L2Mask12}

InitRecords ==
  /\ bit_size_ = 0
  /\ size_ = WordCount(0)
  /\ data_ = [w \in 0..(size_ - 1) |-> 0]
  /\ NoIndex
  /\ last = [op |-> "construct"]

\* L12Type(l1, l2)
PackL12Type ==
  /\ queries < MaxQueries
  /\ queries' = queries + 1
  /\ \E l1 \in L12L1Values, a \in L12L2Values, b \in L12L2Values,
        c \in L12L2Values :
        last' = [op |-> "L12Type", l1 |-> l1, l2 |-> <<a, b, c>>,
                 record |-> L12Type(l1, <<a, b, c>>)]
  /\ UNCHANGED <<bvVars, pc, cfgVars, idxVars>>

\* BigL12Type(l1, l2)
PackBigL12Type ==
  /\ queries < MaxQueries
  /\ queries' = queries + 1
  /\ \E l1 \in BigL1Values, l2 \in [1..7 -> BigL2Values] :
        last' = [op |-> "BigL12Type", l1 |-> l1, l2 |-> l2,
                 record |-> BigL12TypeOfLimbs(l1, l2)]
  /\ UNCHANGED <<bvVars, pc, cfgVars, idxVars>>

NextRecords == PackL12Type \/ PackBigL12Type

SpecRecords == InitRecords /\ [][NextRecords]_vars

(* C30: packed record round trip: an L12Type built from an l1 below 2^32   *)
(* and three L2 values below 2^10 returns l1 in the field l1 and the i-th  *)
(* L2 value from the accessor [i] for i in {0, 1, 2}; a BigL12Type built   *)
(* from an l1 below 2^40 and seven L2 values below 2^12 returns l1 from    *)
(* l1(), 0 from [0] and the (i - 1)-th given L2 value from [i] for i in    *)
(* 1..7; no field shares a bit with another.                               *)
C30_RoundTrip ==
  /\ last.op = "L12Type"
       => /\ last.record.l1 = last.l1
          /\ \A i \in 0..2 : L12Index(last.record, i) = last.l2[i + 1]
  /\ last.op = "BigL12Type"
       => /\ BigL12L1OfLimbs(last.record) = last.l1
          /\ BigL12Index(last.record, 0) = 0
          /\ \A i \in 1..7 : BigL12Index(last.record, i) = last.l2[i]

\* a BigL12Type with every bit of a 40-bit l1 set between L2 values of all
\* ones and all zeros
C30_Witness ==
  /\ last.op = "BigL12Type"
  /\ last.l1 = <<LimbMod - 1, LimbMod - 1, 255, 0>>
  /\ last.l2[1] = 0
  /\ last.l2[2] = L2Mask12
  /\ last.l2[7] = L2Mask12
  /\ BigL12Index(last.record, 7) = L2Mask12

=============================================================================
